---- MODULE Spec2Model ----
(***************************************************************************)
(* The life-plan simulator store (src/src/store/simulator.ts): the profile *)
(* objects, the derived cash-flow table, the setters that recompute it and *)
(* the per-cell manual override.                                           *)
(*                                                                         *)
(* Amounts are in tenths of a man-yen (20.0 man-yen is 200), so that a     *)
(* value with one decimal place is an integer.  Rates are whole percents.  *)
(* Products with rates are taken exactly and rounded by Round1 the way     *)
(* Number(x.toFixed(1)) rounds the exact value; the representation error   *)
(* of IEEE-754 doubles is not modelled.                                    *)
(***************************************************************************)
EXTENDS Integers, Sequences, FiniteSets, TLC

(***************************************************************************)
(* Bounds of the model.                                                    *)
(***************************************************************************)
\* largest deathAge - currentAge for which the recurrence is run
MaxHorizon == 2
\* largest number of life events held by the store
MaxEvents == 2
\* largest number of manual cell edits between two recomputes
MaxEdits == 2

(***************************************************************************)
(* Exact decimal arithmetic.  A non-negative integer is held as its        *)
(* base-100 digits, least significant first, so that x * (m/100)^k can be  *)
(* computed without overflow and rounded to an integer by dropping k       *)
(* digits.                                                                 *)
(***************************************************************************)
RECURSIVE ToDigits(_)
ToDigits(x) == IF x = 0 THEN <<>> ELSE <<x % 100>> \o ToDigits(x \div 100)

RECURSIVE FromDigits(_)
FromDigits(ds) == IF ds = <<>> THEN 0 ELSE Head(ds) + 100 * FromDigits(Tail(ds))

RECURSIVE MulDigits(_, _, _)
MulDigits(ds, m, carry) ==
  IF ds = <<>>
    THEN IF carry = 0 THEN <<>>
         ELSE <<carry % 100>> \o MulDigits(<<>>, m, carry \div 100)
    ELSE LET t == Head(ds) * m + carry
         IN  <<t % 100>> \o MulDigits(Tail(ds), m, t \div 100)

RECURSIVE MulAll(_, _)
MulAll(ds, ms) ==
  IF ms = <<>> THEN ds ELSE MulAll(MulDigits(ds, Head(ms), 0), Tail(ms))

\* the digits ds divided by 100^k and rounded to the nearest integer, a tie
\* going up
RoundDigits(ds, k) ==
  (IF Len(ds) > k THEN FromDigits(SubSeq(ds, k + 1, Len(ds))) ELSE 0)
  + (IF k > 0 /\ Len(ds) >= k /\ ds[k] >= 50 THEN 1 ELSE 0)

Abs(x) == IF x >= 0 THEN x ELSE 0 - x

Sign(x) == IF x >= 0 THEN 1 ELSE 0 - 1

\* toFixed(1) of the exact value x * (ms[1]/100) * ... * (ms[k]/100), in
\* tenths: the nearest integer, a tie going away from zero
Round1(x, ms) == Sign(x) * RoundDigits(MulAll(ToDigits(Abs(x)), ms), Len(ms))

\* Number(x.toFixed(1)) of a sum of amounts that have one decimal place
ToFixed1(x) == Round1(x, <<>>)

\* Math.pow(1 + rate / 100, n) as the factors of the product
PowFactors(rate, n) == [i \in 1..n |-> 100 + rate]

(***************************************************************************)
(* src/lib/calculations is imported by the store but is not among the      *)
(* source files; the three calculators are modelled from the written       *)
(* specification (sections 4.1 to 4.3).                                     *)
(***************************************************************************)
Occupations ==
  {"company_employee", "part_time_with_pension", "part_time_without_pension",
   "self_employed", "homemaker"}

\* net-of-deduction ratio of an occupation, in percent
NetRatio(occupation) ==
  CASE occupation = "company_employee"          -> 80
    [] occupation = "part_time_with_pension"    -> 85
    [] occupation = "part_time_without_pension" -> 90
    [] occupation = "self_employed"             -> 75
    [] OTHER                                    -> 0

\* pension earned per year worked, in 1/10000 of the annual income
PensionFactor(occupation) ==
  CASE occupation = "company_employee"       -> 100
    [] occupation = "part_time_with_pension" -> 100
    [] OTHER                                 -> 40

Max(a, b) == IF a >= b THEN a ELSE b

\* base income x (1 + raiseRate/100)^(year - startYear) x net ratio, one decimal
calculateNetIncomeWithRaise(annualIncome, occupation, raiseRate, year, startYear) ==
  Round1(annualIncome,
         PowFactors(raiseRate, Max(year - startYear, 0)) \o <<NetRatio(occupation)>>)

\* annual pension from the years worked (clamped at 0) and the income
calculatePension(annualIncome, workStartAge, workEndAge, pensionStartAge, occupation) ==
  Round1(annualIncome * Max(workEndAge - workStartAge, 0),
         <<PensionFactor(occupation), 1>>)

\* the year from which a rent increase compounds
RentBaseYear == 2025

\* nearest integer to num / den (den > 0, num >= 0), a tie going up
RoundDiv(num, den) == (2 * num + den) \div (2 * den)

RECURSIVE IntPow(_, _)
IntPow(b, n) == IF n = 0 THEN 1 ELSE b * IntPow(b, n - 1)

\* the loan payment of one year plus the upkeep, from P = (100 + rate)^term and
\* Q = 100^term: loan * (rate/100) * P / (P - Q) + upkeep
AmortizedYear(own, P, Q) ==
  IF own.interestRate = 0
    THEN RoundDiv(own.loanAmount * 100
                    + own.purchasePrice * own.maintenanceCostRate * own.loanTermYears,
                  100 * own.loanTermYears)
    ELSE RoundDiv(own.loanAmount * own.interestRate * P
                    + own.purchasePrice * own.maintenanceCostRate * (P - Q),
                  100 * (P - Q))

\* own mode: fixed-payment amortization of the loan over the term plus upkeep
OwnHousingExpense(own, year) ==
  IF year < own.purchaseYear THEN 0
  ELSE IF year >= own.purchaseYear + own.loanTermYears
    THEN RoundDiv(own.purchasePrice * own.maintenanceCostRate, 100)
  ELSE AmortizedYear(own, IntPow(100 + own.interestRate, own.loanTermYears),
                     IntPow(100, own.loanTermYears))

\* the year's housing expense of the active arrangement only, one decimal
calculateHousingExpense(housingInfo, year) ==
  IF housingInfo.type = "rent"
    THEN Round1(housingInfo.rent.monthlyRent * 12,
                PowFactors(housingInfo.rent.annualIncreaseRate,
                           Max(year - RentBaseYear, 0)))
    ELSE OwnHousingExpense(housingInfo.own, year)

(***************************************************************************)
(* The calculators defined in the store module.  The track strings of the  *)
(* source are written in ASCII: "private" is the private track, "none" is  *)
(* the does-not-attend track, any other value is the public track; the     *)
(* four university tracks are public_humanities, public_science,           *)
(* private_humanities and private_science.                                 *)
(***************************************************************************)
\* a private humanities tier cheaper than the public science tier
getUniversityCostCheapPrivate(universityType) ==
  CASE universityType = "public_humanities"  -> 3250
    [] universityType = "public_science"     -> 3750
    [] universityType = "private_humanities" -> 3500
    [] universityType = "private_science"    -> 6500
    [] OTHER                                 -> 0

getUniversityCost(universityType) ==
  CASE universityType = "public_humanities"  -> 3250
    [] universityType = "public_science"     -> 3750
    [] universityType = "private_humanities" -> 5500
    [] universityType = "private_science"    -> 6500
    [] OTHER                                 -> 0

\* a nursery band charged whatever the track
ChildExpenseNurseryAlways(plan, childAge) ==
  LET nursery    == IF plan.nursery = "private" THEN 500 ELSE 233
      preschool  == IF plan.preschool = "private" THEN 1000 ELSE 583
      elementary == IF plan.elementary = "private" THEN 833 ELSE 417
      juniorHigh == IF plan.juniorHigh = "private" THEN 1333 ELSE 667
      highSchool == IF plan.highSchool = "private" THEN 2500 ELSE 833
      e0 == 0
      e1 == IF childAge >= 0 /\ childAge <= 2
              THEN nursery ELSE e0
      e2 == IF childAge >= 3 /\ childAge <= 5
              THEN (IF plan.preschool # "none" THEN preschool ELSE 0) ELSE e1
      e3 == IF childAge >= 6 /\ childAge <= 11
              THEN (IF plan.elementary # "none" THEN elementary ELSE 0) ELSE e2
      e4 == IF childAge >= 12 /\ childAge <= 14
              THEN (IF plan.juniorHigh # "none" THEN juniorHigh ELSE 0) ELSE e3
      e5 == IF childAge >= 15 /\ childAge <= 17
              THEN (IF plan.highSchool # "none" THEN highSchool ELSE 0) ELSE e4
      e6 == IF childAge >= 18 /\ childAge <= 21
              THEN (IF plan.university # "none"
                      THEN getUniversityCost(plan.university) ELSE 0) ELSE e5
  IN  e6

\* bands that leave the age of 6 uncovered
ChildExpenseGapAtSix(plan, childAge) ==
  LET nursery    == IF plan.nursery = "private" THEN 500 ELSE 233
      preschool  == IF plan.preschool = "private" THEN 1000 ELSE 583
      elementary == IF plan.elementary = "private" THEN 833 ELSE 417
      juniorHigh == IF plan.juniorHigh = "private" THEN 1333 ELSE 667
      highSchool == IF plan.highSchool = "private" THEN 2500 ELSE 833
      e0 == 0
      e1 == IF childAge >= 0 /\ childAge <= 2
              THEN (IF plan.nursery # "none" THEN nursery ELSE 0) ELSE e0
      e2 == IF childAge >= 3 /\ childAge <= 5
              THEN (IF plan.preschool # "none" THEN preschool ELSE 0) ELSE e1
      e3 == IF childAge >= 7 /\ childAge <= 11
              THEN (IF plan.elementary # "none" THEN elementary ELSE 0) ELSE e2
      e4 == IF childAge >= 12 /\ childAge <= 14
              THEN (IF plan.juniorHigh # "none" THEN juniorHigh ELSE 0) ELSE e3
      e5 == IF childAge >= 15 /\ childAge <= 17
              THEN (IF plan.highSchool # "none" THEN highSchool ELSE 0) ELSE e4
      e6 == IF childAge >= 18 /\ childAge <= 21
              THEN (IF plan.university # "none"
                      THEN getUniversityCost(plan.university) ELSE 0) ELSE e5
  IN  e6

\* the un-inflated cost of one child of age childAge
ChildExpense(plan, childAge) ==
  LET nursery    == IF plan.nursery = "private" THEN 500 ELSE 233
      preschool  == IF plan.preschool = "private" THEN 1000 ELSE 583
      elementary == IF plan.elementary = "private" THEN 833 ELSE 417
      juniorHigh == IF plan.juniorHigh = "private" THEN 1333 ELSE 667
      highSchool == IF plan.highSchool = "private" THEN 2500 ELSE 833
      e0 == 0
      e1 == IF childAge >= 0 /\ childAge <= 2
              THEN (IF plan.nursery # "none" THEN nursery ELSE 0) ELSE e0
      e2 == IF childAge >= 3 /\ childAge <= 5
              THEN (IF plan.preschool # "none" THEN preschool ELSE 0) ELSE e1
      e3 == IF childAge >= 6 /\ childAge <= 11
              THEN (IF plan.elementary # "none" THEN elementary ELSE 0) ELSE e2
      e4 == IF childAge >= 12 /\ childAge <= 14
              THEN (IF plan.juniorHigh # "none" THEN juniorHigh ELSE 0) ELSE e3
      e5 == IF childAge >= 15 /\ childAge <= 17
              THEN (IF plan.highSchool # "none" THEN highSchool ELSE 0) ELSE e4
      e6 == IF childAge >= 18 /\ childAge <= 21
              THEN (IF plan.university # "none"
                      THEN getUniversityCost(plan.university) ELSE 0) ELSE e5
  IN  e6

RECURSIVE ExistingChildrenExpense(_, _, _)
ExistingChildrenExpense(children, year, startYear) ==
  IF children = <<>> THEN 0
  ELSE ChildExpense(Head(children).educationPlan,
                    Head(children).currentAge + (year - startYear))
       + ExistingChildrenExpense(Tail(children), year, startYear)

\* planned children aged as if born in the start year
RECURSIVE PlannedChildrenExpenseBornAtStart(_, _, _)
PlannedChildrenExpenseBornAtStart(plannedChildren, year, startYear) ==
  IF plannedChildren = <<>> THEN 0
  ELSE (IF year - startYear >= Head(plannedChildren).yearsFromNow
          THEN ChildExpense(Head(plannedChildren).educationPlan, year - startYear)
          ELSE 0)
       + PlannedChildrenExpenseBornAtStart(Tail(plannedChildren), year, startYear)

RECURSIVE PlannedChildrenExpense(_, _, _)
PlannedChildrenExpense(plannedChildren, year, startYear) ==
  IF plannedChildren = <<>> THEN 0
  ELSE (IF year - startYear >= Head(plannedChildren).yearsFromNow
          THEN ChildExpense(Head(plannedChildren).educationPlan,
                            (year - startYear) - Head(plannedChildren).yearsFromNow)
          ELSE 0)
       + PlannedChildrenExpense(Tail(plannedChildren), year, startYear)

\* every child's cost carries the same multiplier
\* (1 + educationCostIncreaseRate/100)^(year - startYear); the total is rounded
calculateEducationExpense(children, plannedChildren, year, currentAge, startYear, rate) ==
  Round1(ExistingChildrenExpense(children, year, startYear)
           + PlannedChildrenExpense(plannedChildren, year, startYear),
         PowFactors(rate, year - startYear))

\* a reducer without the test event.year === year
RECURSIVE LifeEventReduceAnyYear(_, _)
LifeEventReduceAnyYear(lifeEvents, year) ==
  IF lifeEvents = <<>> THEN 0
  ELSE LET event == lifeEvents[Len(lifeEvents)]
           total == LifeEventReduceAnyYear(SubSeq(lifeEvents, 1, Len(lifeEvents) - 1), year)
       IN  IF event.type = "expense" THEN total + event.amount
                                      ELSE total - event.amount

\* the reducer of calculateLifeEventExpense
RECURSIVE LifeEventReduce(_, _)
LifeEventReduce(lifeEvents, year) ==
  IF lifeEvents = <<>> THEN 0
  ELSE LET event == lifeEvents[Len(lifeEvents)]
           total == LifeEventReduce(SubSeq(lifeEvents, 1, Len(lifeEvents) - 1), year)
       IN  IF event.year = year
             THEN IF event.type = "expense" THEN total + event.amount
                                            ELSE total - event.amount
             ELSE total

calculateLifeEventExpense(lifeEvents, year) ==
  ToFixed1(LifeEventReduce(lifeEvents, year))

(***************************************************************************)
(* The store.  gender is never read and is left out of basicInfo; an       *)
(* optional field that is undefined is a key missing from the record.      *)
(***************************************************************************)
VARIABLES
  currentStep,        \* wizard step
  basicInfo,          \* household profile
  incomeInfo,         \* income profile
  expenseInfo,        \* expense profile (read by no calculation)
  lifeEvents,         \* sequence of life events
  assetsLiabilities,  \* asset and liability buckets
  parameters,         \* inflation, education-cost and investment rates
  cashFlow,           \* year -> row, the derived table
  computed,           \* history: cashFlow was last written by initializeCashFlow
  overrides,          \* history: <<year, field>> -> value of the manual edits
                      \* made since cashFlow was last replaced as a whole
  discarded           \* history: the last operation ran initializeCashFlow
                      \* over a table that held manual edits

vars == <<currentStep, basicInfo, incomeInfo, expenseInfo, lifeEvents,
          assetsLiabilities, parameters, cashFlow, computed, overrides, discarded>>

Fields ==
  {"mainIncome", "sideIncome", "investmentIncome", "spouseIncome",
   "livingExpense", "housingExpense", "educationExpense", "otherExpense"}

\* get(): the store as one record
State ==
  [currentStep |-> currentStep, basicInfo |-> basicInfo, incomeInfo |-> incomeInfo,
   expenseInfo |-> expenseInfo, lifeEvents |-> lifeEvents,
   assetsLiabilities |-> assetsLiabilities, parameters |-> parameters,
   cashFlow |-> cashFlow]

\* { ...a, ...b }
Merge(a, b) ==
  [k \in DOMAIN a \cup DOMAIN b |-> IF k \in DOMAIN b THEN b[k] ELSE a[k]]

EmptyTable == [y \in {} |-> 0]

Has(r, k) == k \in DOMAIN r

(***************************************************************************)
(* initializeCashFlow: the recurrence over the horizon.                    *)
(***************************************************************************)
\* a horizon one year short: length yearsUntilDeath instead of yearsUntilDeath + 1
YearsOneShort(bi) ==
  [i \in 1..Max(bi.deathAge - bi.currentAge, 0) |-> bi.startYear + (i - 1)]

\* Array.from({ length: yearsUntilDeath + 1 }, (_, i) => startYear + i)
Years(bi) ==
  [i \in 1..Max(bi.deathAge - bi.currentAge + 1, 0) |-> bi.startYear + (i - 1)]

InitialAssets(al) ==
  (al.assets.cash + al.assets.savings + al.assets.stocks
     + al.assets.investmentTrust + al.assets.realEstate)
  - (al.liabilities.loans + al.liabilities.creditCards)

\* a salary that does not stop at workEndAge
MainIncomeAtNoRetirement(bi, ii, year, age) ==
  (IF age >= ii.workStartAge
     THEN calculateNetIncomeWithRaise(ii.annualIncome, bi.occupation, ii.raiseRate,
                                      year, bi.startYear)
     ELSE 0)
  + (IF age >= ii.pensionStartAge
       THEN calculatePension(ii.annualIncome, ii.workStartAge, ii.workEndAge,
                             ii.pensionStartAge, bi.occupation)
       ELSE 0)

\* the pension taken from the salary instead of added to it
MainIncomeAtPensionTaken(bi, ii, year, age) ==
  (IF age >= ii.workStartAge /\ age <= ii.workEndAge
     THEN calculateNetIncomeWithRaise(ii.annualIncome, bi.occupation, ii.raiseRate,
                                      year, bi.startYear)
     ELSE 0)
  - (IF age >= ii.pensionStartAge
       THEN calculatePension(ii.annualIncome, ii.workStartAge, ii.workEndAge,
                             ii.pensionStartAge, bi.occupation)
       ELSE 0)

\* a pension that starts in the year after pensionStartAge
MainIncomeAtPensionLate(bi, ii, year, age) ==
  (IF age >= ii.workStartAge /\ age <= ii.workEndAge
     THEN calculateNetIncomeWithRaise(ii.annualIncome, bi.occupation, ii.raiseRate,
                                      year, bi.startYear)
     ELSE 0)
  + (IF age > ii.pensionStartAge
       THEN calculatePension(ii.annualIncome, ii.workStartAge, ii.workEndAge,
                             ii.pensionStartAge, bi.occupation)
       ELSE 0)

\* the severance pay received in the last year of work
MainIncomeAtWithSeverance(bi, ii, year, age) ==
  (IF age >= ii.workStartAge /\ age <= ii.workEndAge
     THEN calculateNetIncomeWithRaise(ii.annualIncome, bi.occupation, ii.raiseRate,
                                      year, bi.startYear)
     ELSE 0)
  + (IF age = ii.workEndAge THEN ii.severancePay ELSE 0)
  + (IF age >= ii.pensionStartAge
       THEN calculatePension(ii.annualIncome, ii.workStartAge, ii.workEndAge,
                             ii.pensionStartAge, bi.occupation)
       ELSE 0)

\* the salary inside the work window plus the pension from pensionStartAge on
MainIncomeAt(bi, ii, year, age) ==
  (IF age >= ii.workStartAge /\ age <= ii.workEndAge
     THEN calculateNetIncomeWithRaise(ii.annualIncome, bi.occupation, ii.raiseRate,
                                      year, bi.startYear)
     ELSE 0)
  + (IF age >= ii.pensionStartAge
       THEN calculatePension(ii.annualIncome, ii.workStartAge, ii.workEndAge,
                             ii.pensionStartAge, bi.occupation)
       ELSE 0)

MainIncome(bi, ii, year) ==
  MainIncomeAt(bi, ii, year, bi.currentAge + (year - bi.startYear))

\* spouseInfo.occupation || 'company_employee'
SpouseOccupation(bi) ==
  IF Has(bi.spouseInfo, "occupation") THEN bi.spouseInfo.occupation
                                      ELSE "company_employee"

\* salary and pension of the spouse at age spouseAge, the income counted from
\* baseYear; the raise rate is 0 and the pension starts at the head's
\* pensionStartAge
SpouseIncomeAt(occupation, ii, spouseAge, year, baseYear) ==
  (IF spouseAge >= ii.spouse.workStartAge /\ spouseAge <= ii.spouse.workEndAge
     THEN calculateNetIncomeWithRaise(ii.spouse.annualIncome, occupation, 0, year,
                                      baseYear)
     ELSE 0)
  + (IF spouseAge >= ii.pensionStartAge
       THEN calculatePension(ii.spouse.annualIncome, ii.spouse.workStartAge,
                             ii.spouse.workEndAge, ii.pensionStartAge, occupation)
       ELSE 0)

\* a planning branch without the test year >= marriageYear
PlannedSpouseIncomeUngated(bi, ii, year, marriageYear) ==
  IF Has(ii, "spouse") /\ Has(bi.spouseInfo, "age")
    THEN SpouseIncomeAt(SpouseOccupation(bi), ii,
                        bi.spouseInfo.age + (year - marriageYear), year, marriageYear)
    ELSE 0

\* a planning branch that takes marriageAge for a missing spouseInfo.age
PlannedSpouseIncomeAgeGuessed(bi, ii, year, marriageYear) ==
  IF year >= marriageYear /\ Has(ii, "spouse")
    THEN SpouseIncomeAt(SpouseOccupation(bi), ii,
                        (IF Has(bi.spouseInfo, "age") THEN bi.spouseInfo.age
                                                      ELSE bi.spouseInfo.marriageAge)
                          + (year - marriageYear),
                        year, marriageYear)
    ELSE 0

\* the 'planning' branch once marriageYear is known
PlannedSpouseIncome(bi, ii, year, marriageYear) ==
  IF year >= marriageYear /\ Has(ii, "spouse") /\ Has(bi.spouseInfo, "age")
    THEN SpouseIncomeAt(SpouseOccupation(bi), ii,
                        bi.spouseInfo.age + (year - marriageYear), year, marriageYear)
    ELSE 0

SpouseIncome(bi, ii, year) ==
  IF bi.maritalStatus = "married" /\ Has(bi, "spouseInfo")
     /\ Has(bi.spouseInfo, "currentAge") /\ Has(ii, "spouse")
    THEN SpouseIncomeAt(SpouseOccupation(bi), ii,
                        bi.spouseInfo.currentAge + (year - bi.startYear),
                        year, bi.startYear)
  ELSE IF bi.maritalStatus = "planning" /\ Has(bi, "spouseInfo")
          /\ Has(bi.spouseInfo, "marriageAge")
    THEN PlannedSpouseIncome(bi, ii, year,
           bi.startYear + (bi.spouseInfo.marriageAge - bi.currentAge))
  ELSE 0

\* a return charged on every balance, a negative one included
InvestmentReturnAnyBalance(previousYearAssets, pa) ==
  Round1(previousYearAssets, <<pa.investmentReturn>>)

InvestmentReturn(previousYearAssets, pa) ==
  IF previousYearAssets > 0 THEN Round1(previousYearAssets, <<pa.investmentReturn>>)
                            ELSE 0

\* the life-event value added to the balance instead of subtracted from it
StoreRowOtherAdded(previousYearAssets, main, spouse, inv, living, housing, education, other) ==
  [row |-> [mainIncome       |-> ToFixed1(main),
            sideIncome       |-> 0,
            investmentIncome |-> ToFixed1(inv),
            spouseIncome     |-> ToFixed1(spouse),
            livingExpense    |-> ToFixed1(living),
            housingExpense   |-> ToFixed1(housing),
            educationExpense |-> ToFixed1(education),
            otherExpense     |-> ToFixed1(other)],
   closing |-> ToFixed1(previousYearAssets + (main + spouse + inv)
                          - (living + housing + education) + other)]

\* a row stored without the field that is always 0
StoreRowNoSideIncome(previousYearAssets, main, spouse, inv, living, housing, education, other) ==
  [row |-> [mainIncome       |-> ToFixed1(main),
            investmentIncome |-> ToFixed1(inv),
            spouseIncome     |-> ToFixed1(spouse),
            livingExpense    |-> ToFixed1(living),
            housingExpense   |-> ToFixed1(housing),
            educationExpense |-> ToFixed1(education),
            otherExpense     |-> ToFixed1(other)],
   closing |-> ToFixed1(previousYearAssets + (main + spouse + inv)
                          - (living + housing + education + other))]

\* the end of one iteration of years.forEach: the row stored for the year and
\* the new value of previousYearAssets
\* (main, spouse, inv, living, housing, education and other are the year's
\* mainIncome, spouseIncome, investmentReturn and the four expenses)
StoreRow(previousYearAssets, main, spouse, inv, living, housing, education, other) ==
  [row |-> [mainIncome       |-> ToFixed1(main),
            sideIncome       |-> 0,
            investmentIncome |-> ToFixed1(inv),
            spouseIncome     |-> ToFixed1(spouse),
            livingExpense    |-> ToFixed1(living),
            housingExpense   |-> ToFixed1(housing),
            educationExpense |-> ToFixed1(education),
            otherExpense     |-> ToFixed1(other)],
   closing |-> ToFixed1(previousYearAssets + (main + spouse + inv)
                          - (living + housing + education + other))]

\* a living expense that grows at the education rate
YearStepLivingAtEducationRate(s, year, previousYearAssets) ==
  StoreRow(previousYearAssets,
           MainIncome(s.basicInfo, s.incomeInfo, year),
           SpouseIncome(s.basicInfo, s.incomeInfo, year),
           InvestmentReturn(previousYearAssets, s.parameters),
           Round1(s.basicInfo.monthlyLivingExpense * 12,
                  PowFactors(s.parameters.educationCostIncreaseRate,
                             year - s.basicInfo.startYear)),
           calculateHousingExpense(s.basicInfo.housingInfo, year),
           calculateEducationExpense(s.basicInfo.children, s.basicInfo.plannedChildren,
                                     year, s.basicInfo.currentAge, s.basicInfo.startYear,
                                     s.parameters.educationCostIncreaseRate),
           calculateLifeEventExpense(s.lifeEvents, year))

\* one iteration of years.forEach
YearStep(s, year, previousYearAssets) ==
  StoreRow(previousYearAssets,
           MainIncome(s.basicInfo, s.incomeInfo, year),
           SpouseIncome(s.basicInfo, s.incomeInfo, year),
           InvestmentReturn(previousYearAssets, s.parameters),
           Round1(s.basicInfo.monthlyLivingExpense * 12,
                  PowFactors(s.parameters.inflationRate, year - s.basicInfo.startYear)),
           calculateHousingExpense(s.basicInfo.housingInfo, year),
           calculateEducationExpense(s.basicInfo.children, s.basicInfo.plannedChildren,
                                     year, s.basicInfo.currentAge, s.basicInfo.startYear,
                                     s.parameters.educationCostIncreaseRate),
           calculateLifeEventExpense(s.lifeEvents, year))

RECURSIVE Recurrence(_, _, _, _)
\* the step of year years[i] followed by the steps of the later years
StepThenRest(s, years, i, step) ==
  <<step>> \o Recurrence(s, years, i + 1, step.closing)

Recurrence(s, years, i, previousYearAssets) ==
  IF i > Len(years) THEN <<>>
  ELSE StepThenRest(s, years, i, YearStep(s, years[i], previousYearAssets))

RecurrenceOf(s) ==
  Recurrence(s, Years(s.basicInfo), 1, InitialAssets(s.assetsLiabilities))

\* newCashFlow[years[i]] is the row of the i-th step
TableOf(years, steps) ==
  [y \in {years[i] : i \in DOMAIN years} |->
     steps[CHOOSE i \in DOMAIN years : years[i] = y].row]

\* newCashFlow when the loop has ended
NewCashFlow(s) == TableOf(Years(s.basicInfo), RecurrenceOf(s))

\* previousYearAssets before the loop and after each iteration
ClosingOf(initialAssets, steps) ==
  <<initialAssets>> \o [i \in DOMAIN steps |-> steps[i].closing]

ClosingAssets(s) == ClosingOf(InitialAssets(s.assetsLiabilities), RecurrenceOf(s))

(***************************************************************************)
(* The store operations.  Each is given as the sequence of store states    *)
(* that its calls of set() publish to the subscribers, in order; the last  *)
(* one is the state the operation leaves.                                  *)
(***************************************************************************)
Last(seq) == seq[Len(seq)]

\* set({ cashFlow: newCashFlow }) is the only set() of initializeCashFlow
\* the first n rows of a table
FirstRows(years, table, n) ==
  [y \in {years[k] : k \in 1..n} |-> table[y]]

RowsOneByOne(s, years, table) ==
  [n \in 1..Len(years) |-> [s EXCEPT !.cashFlow = FirstRows(years, table, n)]]

\* a run that publishes the table after every year of the loop
initializeCashFlowRowByRow(s) ==
  RowsOneByOne(s, Years(s.basicInfo), NewCashFlow(s))

\* a run that patches the held table: rows are overwritten, none is removed
initializeCashFlowPatching(s) ==
  <<[s EXCEPT !.cashFlow = Merge(s.cashFlow, NewCashFlow(s))]>>

initializeCashFlowSets(s) ==
  <<[s EXCEPT !.cashFlow = NewCashFlow(s)]>>

setCurrentStepSets(s, step) ==
  <<[s EXCEPT !.currentStep = step]>>

\* a setter that stops after set() of the profile
WithoutInitialize(s1) == <<s1>>

\* a setter whose recompute patches the held table
ThenInitializePatching(s1) == <<s1>> \o initializeCashFlowPatching(s1)

\* a setter: set() of the profile, then get().initializeCashFlow()
ThenInitialize(s1) == <<s1>> \o initializeCashFlowSets(s1)

setBasicInfoSets(s, info) ==
  ThenInitialize([s EXCEPT !.basicInfo = Merge(s.basicInfo, info)])

setIncomeInfoSets(s, info) ==
  ThenInitialize([s EXCEPT !.incomeInfo = Merge(s.incomeInfo, info)])

\* a setExpenseInfo that stops after set(), the recurrence reading nothing
\* of expenseInfo
setExpenseInfoSetsNoRecompute(s, info) ==
  WithoutInitialize([s EXCEPT !.expenseInfo = Merge(s.expenseInfo, info)])

setExpenseInfoSets(s, info) ==
  ThenInitialize([s EXCEPT !.expenseInfo = Merge(s.expenseInfo, info)])

addLifeEventSets(s, event) ==
  ThenInitialize([s EXCEPT !.lifeEvents = Append(s.lifeEvents, event)])

\* a removal that counts the index from 1
RemoveAtOneBased(events, index) ==
  IF index \in DOMAIN events
    THEN SubSeq(events, 1, index - 1) \o SubSeq(events, index + 1, Len(events))
    ELSE events

\* lifeEvents.filter((_, i) => i !== index), index counted from 0
RemoveAt(events, index) ==
  IF index + 1 \in DOMAIN events
    THEN SubSeq(events, 1, index) \o SubSeq(events, index + 2, Len(events))
    ELSE events

removeLifeEventSets(s, index) ==
  ThenInitialize([s EXCEPT !.lifeEvents = RemoveAt(s.lifeEvents, index)])

setAssetsLiabilitiesSets(s, info) ==
  ThenInitialize([s EXCEPT !.assetsLiabilities = Merge(s.assetsLiabilities, info)])

setParametersSets(s, params) ==
  ThenInitialize([s EXCEPT !.parameters = Merge(s.parameters, params)])

setCashFlowSets(s, data) ==
  <<[s EXCEPT !.cashFlow = data]>>

\* { ...cashFlow, [year]: { ...cashFlow[year], [field]: value } }
\* an update that replaces the row by one holding the edited field alone
UpdateCellRowReplaced(cf, year, field, value) ==
  Merge(cf, year :> (field :> value))

UpdateCell(cf, year, field, value) ==
  Merge(cf, year :> Merge(IF year \in DOMAIN cf THEN cf[year] ELSE EmptyTable,
                          field :> value))

\* an update that runs initializeCashFlow as the setters do
updateCashFlowValueSetsThenInitialize(s, year, field, value) ==
  ThenInitialize([s EXCEPT !.cashFlow = UpdateCell(s.cashFlow, year, field, value)])

updateCashFlowValueSets(s, year, field, value) ==
  <<[s EXCEPT !.cashFlow = UpdateCell(s.cashFlow, year, field, value)]>>

\* a mount effect without the test
MountAlwaysInitializes(cf) == TRUE

\* Object.keys(cashFlow).length === 0, the test of the form's mount effect
MountInitializes(cf) == DOMAIN cf = {}

mountCashFlowFormSets(s) ==
  IF MountInitializes(s.cashFlow) THEN initializeCashFlowSets(s) ELSE <<>>

(***************************************************************************)
(* Inputs of the operations.                                               *)
(***************************************************************************)
Steps == {6}

PublicPlan ==
  [nursery |-> "public", preschool |-> "public", elementary |-> "public",
   juniorHigh |-> "public", highSchool |-> "public",
   university |-> "public_humanities"]

PrivatePlan ==
  [nursery |-> "private", preschool |-> "none", elementary |-> "private",
   juniorHigh |-> "private", highSchool |-> "private",
   university |-> "private_science"]

\* what the basic-information form submits for a married household with a
\* five-year-old child and a child planned for next year
FamilyForm ==
  [currentAge |-> 30, startYear |-> 2025, deathAge |-> 30 + MaxHorizon,
   monthlyLivingExpense |-> 200, occupation |-> "company_employee",
   maritalStatus |-> "married",
   housingInfo |-> [type |-> "rent",
                    rent |-> [monthlyRent |-> 50, annualIncreaseRate |-> 2]],
   spouseInfo |-> [currentAge |-> 28, occupation |-> "part_time_with_pension"],
   children |-> <<[currentAge |-> 5, educationPlan |-> PublicPlan]>>,
   plannedChildren |-> <<[yearsFromNow |-> 1, educationPlan |-> PrivatePlan]>>]

\* the form's submission, and a change of deathAge alone
BasicInfoInputs == {FamilyForm, [deathAge |-> 30]}

\* a head who retires and draws a pension at 31, with a working spouse
CareerForm ==
  [annualIncome |-> 4000, raiseRate |-> 2, severancePay |-> 0,
   workStartAge |-> 22, workEndAge |-> 31, pensionStartAge |-> 31,
   pensionAmount |-> 30, sideIncomes |-> <<>>,
   spouse |-> [annualIncome |-> 1000, severancePay |-> 0, workStartAge |-> 20,
               workEndAge |-> 60, pensionAmount |-> 0]]

IncomeInfoInputs == {CareerForm}

ExpenseInfoInputs == {[livingExpense |-> 150]}

LifeEventInputs ==
  {[year |-> 2025, description |-> "car", type |-> "expense",
    category |-> "other", amount |-> 500],
   [year |-> 2025, description |-> "gift", type |-> "income",
    category |-> "other", amount |-> 300]}

AssetsLiabilitiesInputs ==
  {[assets |-> [cash |-> 5000, savings |-> 3000, stocks |-> 0,
                investmentTrust |-> 0, realEstate |-> 0],
    liabilities |-> [loans |-> 1000, creditCards |-> 0]]}

ParametersInputs == {[investmentReturn |-> 5]}

CashFlowInputs == {EmptyTable}

\* the cells of the cash-flow form that are edited, with the values typed
EditInputs ==
  {<<2025, "mainIncome", 70>>, <<2025, "mainIncome", 90>>,
   <<2025, "otherExpense", 70>>, <<2026, "mainIncome", 70>>}

(***************************************************************************)
(* The state machine.                                                      *)
(***************************************************************************)
Init ==
  /\ currentStep = 1
  /\ basicInfo = [currentAge |-> 30, startYear |-> 2025, deathAge |-> 80,
                  monthlyLivingExpense |-> 0, occupation |-> "company_employee",
                  maritalStatus |-> "single",
                  housingInfo |-> [type |-> "rent",
                                   rent |-> [monthlyRent |-> 0,
                                             annualIncreaseRate |-> 0]],
                  children |-> <<>>, plannedChildren |-> <<>>]
  /\ incomeInfo = [annualIncome |-> 0, raiseRate |-> 0, severancePay |-> 0,
                   workStartAge |-> 22, workEndAge |-> 60, pensionStartAge |-> 65,
                   pensionAmount |-> 0, sideIncomes |-> <<>>]
  /\ expenseInfo = [livingExpense |-> 0,
                    housingInfo |-> [type |-> "rent", monthlyAmount |-> 0],
                    educationExpense |-> [nursery |-> 0, preschool |-> 0,
                                          elementary |-> 0, juniorHigh |-> 0,
                                          highSchool |-> 0, university |-> 0]]
  /\ lifeEvents = <<>>
  /\ assetsLiabilities = [assets |-> [cash |-> 0, savings |-> 0, stocks |-> 0,
                                      investmentTrust |-> 0, realEstate |-> 0],
                          liabilities |-> [loans |-> 0, creditCards |-> 0]]
  /\ parameters = [inflationRate |-> 1, educationCostIncreaseRate |-> 2,
                   investmentReturn |-> 3]
  /\ cashFlow = EmptyTable
  /\ computed = FALSE
  /\ overrides = EmptyTable
  /\ discarded = FALSE

\* the recurrence is explored for horizons of at most MaxHorizon + 1 years
HorizonOK(s) == s.basicInfo.deathAge - s.basicInfo.currentAge <= MaxHorizon

Commit(s) ==
  /\ currentStep' = s.currentStep
  /\ basicInfo' = s.basicInfo
  /\ incomeInfo' = s.incomeInfo
  /\ expenseInfo' = s.expenseInfo
  /\ lifeEvents' = s.lifeEvents
  /\ assetsLiabilities' = s.assetsLiabilities
  /\ parameters' = s.parameters
  /\ cashFlow' = s.cashFlow

\* an operation that ends with a run of initializeCashFlow
Recomputing(sets) ==
  /\ Commit(Last(sets))
  /\ computed' = TRUE
  /\ overrides' = EmptyTable
  /\ discarded' = (DOMAIN overrides # {})

setCurrentStep ==
  \E step \in Steps :
    /\ Commit(Last(setCurrentStepSets(State, step)))
    /\ discarded' = FALSE
    /\ UNCHANGED <<computed, overrides>>

setBasicInfo ==
  \E info \in BasicInfoInputs :
    /\ HorizonOK([State EXCEPT !.basicInfo = Merge(basicInfo, info)])
    /\ Recomputing(setBasicInfoSets(State, info))

setIncomeInfo ==
  \E info \in IncomeInfoInputs :
    /\ HorizonOK(State)
    /\ Recomputing(setIncomeInfoSets(State, info))

setExpenseInfo ==
  \E info \in ExpenseInfoInputs :
    /\ HorizonOK(State)
    /\ Recomputing(setExpenseInfoSets(State, info))

addLifeEvent ==
  \E event \in LifeEventInputs :
    /\ HorizonOK(State)
    /\ Len(lifeEvents) < MaxEvents
    /\ Recomputing(addLifeEventSets(State, event))

removeLifeEvent ==
  \E index \in 0..MaxEvents :
    /\ HorizonOK(State)
    /\ Recomputing(removeLifeEventSets(State, index))

setAssetsLiabilities ==
  \E info \in AssetsLiabilitiesInputs :
    /\ HorizonOK(State)
    /\ Recomputing(setAssetsLiabilitiesSets(State, info))

setParameters ==
  \E params \in ParametersInputs :
    /\ HorizonOK(State)
    /\ Recomputing(setParametersSets(State, params))

setCashFlow ==
  \E data \in CashFlowInputs :
    /\ Commit(Last(setCashFlowSets(State, data)))
    /\ computed' = FALSE
    /\ overrides' = EmptyTable
    /\ discarded' = FALSE

\* the form offers the cells of the horizon years; at most MaxEdits cells are
\* edited between two replacements of the table
updateCashFlowValue ==
  \E e \in EditInputs :
    /\ HorizonOK(State)
    /\ e[1] \in {Years(basicInfo)[i] : i \in DOMAIN Years(basicInfo)}
    /\ Cardinality(DOMAIN overrides \cup {<<e[1], e[2]>>}) <= MaxEdits
    /\ Commit(Last(updateCashFlowValueSets(State, e[1], e[2], e[3])))
    /\ computed' = FALSE
    /\ overrides' = Merge(overrides, <<e[1], e[2]>> :> e[3])
    /\ discarded' = FALSE

initializeCashFlow ==
  /\ HorizonOK(State)
  /\ Recomputing(initializeCashFlowSets(State))

\* the cash-flow form is mounted: its effect runs once
mountCashFlowForm ==
  /\ HorizonOK(State)
  /\ IF MountInitializes(cashFlow)
       THEN Recomputing(mountCashFlowFormSets(State))
       ELSE /\ discarded' = FALSE
            /\ UNCHANGED <<currentStep, basicInfo, incomeInfo, expenseInfo,
                           lifeEvents, assetsLiabilities, parameters, cashFlow,
                           computed, overrides>>

Next ==
  \/ setCurrentStep
  \/ setBasicInfo
  \/ setIncomeInfo
  \/ setExpenseInfo
  \/ addLifeEvent
  \/ removeLifeEvent
  \/ setAssetsLiabilities
  \/ setParameters
  \/ setCashFlow
  \/ updateCashFlowValue
  \/ initializeCashFlow
  \/ mountCashFlowForm

Spec == Init /\ [][Next]_vars

(***************************************************************************)
(* Properties.                                                             *)
(***************************************************************************)
RECURSIVE SumOver(_, _)
SumOver(S, f) ==
  IF S = {} THEN 0
  ELSE LET x == CHOOSE x \in S : TRUE IN f[x] + SumOver(S \ {x}, f)

\* the sum of the amounts of the life events of year y that have type t
EventSum(y, t) ==
  SumOver({i \in DOMAIN lifeEvents : lifeEvents[i].year = y /\ lifeEvents[i].type = t},
          [i \in DOMAIN lifeEvents |-> lifeEvents[i].amount])

\* the calendar years from startYear to the year of deathAge
HorizonYears ==
  basicInfo.startYear .. (basicInfo.startYear + (basicInfo.deathAge - basicInfo.currentAge))

\* sum(assets) - sum(liabilities)
NetInitialAssets ==
  SumOver(DOMAIN assetsLiabilities.assets, assetsLiabilities.assets)
  - SumOver(DOMAIN assetsLiabilities.liabilities, assetsLiabilities.liabilities)

\* the closing assets of the run that produced the table of a computed state:
\* entry 1 is A(0), entry i + 1 the closing assets of the i-th horizon year
Closing == ClosingAssets(State)

\* the i-th horizon year
YearAt(i) == basicInfo.startYear + (i - 1)

\* C1: after initializeCashFlow has run on a profile with deathAge >= currentAge,
\* the keys of cashFlow are exactly the years startYear .. startYear +
\* (deathAge - currentAge): one row per year, none missing, none outside, and
\* a single row when deathAge = currentAge.
C1_KeysAreHorizon ==
  (computed /\ basicInfo.deathAge >= basicInfo.currentAge)
    => /\ DOMAIN cashFlow = HorizonYears
       /\ Cardinality(DOMAIN cashFlow) = basicInfo.deathAge - basicInfo.currentAge + 1

C1_Witness ==
  /\ computed
  /\ basicInfo.deathAge > basicInfo.currentAge
  /\ DOMAIN cashFlow = HorizonYears

\* C2: the closing assets start at sum(assets) - sum(liabilities) and, year by
\* year, become round1(A + (main + spouse + investment return) - (living +
\* housing + education) + life-event net effect), in which the income events
\* of the year add and its expense events subtract.
C2_ClosingRecurrence ==
  computed =>
    /\ Len(Closing) = Cardinality(DOMAIN cashFlow) + 1
    /\ Closing[1] = NetInitialAssets
    /\ \A i \in 1..Cardinality(DOMAIN cashFlow) :
         Closing[i + 1] =
           ToFixed1(Closing[i]
                    + (cashFlow[YearAt(i)].mainIncome + cashFlow[YearAt(i)].spouseIncome
                         + cashFlow[YearAt(i)].investmentIncome)
                    - (cashFlow[YearAt(i)].livingExpense
                         + cashFlow[YearAt(i)].housingExpense
                         + cashFlow[YearAt(i)].educationExpense)
                    + (EventSum(YearAt(i), "income") - EventSum(YearAt(i), "expense")))

C2_Witness ==
  /\ computed
  /\ NetInitialAssets > 0
  /\ \E y \in DOMAIN cashFlow :
       /\ cashFlow[y].mainIncome > 0
       /\ cashFlow[y].spouseIncome > 0
       /\ cashFlow[y].investmentIncome > 0
       /\ cashFlow[y].livingExpense > 0
       /\ cashFlow[y].housingExpense > 0
       /\ cashFlow[y].educationExpense > 0
       /\ EventSum(y, "income") > 0
       /\ EventSum(y, "expense") > 0

\* C3: the investmentIncome of a row is round1(A x investmentReturn / 100) when
\* the closing assets A carried into its year are > 0 and is 0 when A <= 0.
\* (v is A x r / 100 rounded to the nearest tenth iff |100 v - A r| <= 50.)
C3_InvestmentOnlyOnPositive ==
  computed =>
    \A i \in 1..Cardinality(DOMAIN cashFlow) :
      IF Closing[i] > 0
        THEN /\ cashFlow[YearAt(i)].investmentIncome >= 0
             /\ Abs(100 * cashFlow[YearAt(i)].investmentIncome
                      - Closing[i] * parameters.investmentReturn) <= 50
        ELSE cashFlow[YearAt(i)].investmentIncome = 0

C3_Witness ==
  /\ computed
  /\ \E i \in 1..Cardinality(DOMAIN cashFlow) :
       Closing[i] < 0 /\ cashFlow[YearAt(i)].investmentIncome = 0
  /\ \E i \in 1..Cardinality(DOMAIN cashFlow) :
       Closing[i] > 0 /\ cashFlow[YearAt(i)].investmentIncome > 0

\* C10 as stated: the otherExpense of the row of year y is the sum over the
\* life events of year y in which income events add and expense events
\* subtract.
C10_OtherExpenseIsNetIncome ==
  computed =>
    \A y \in DOMAIN cashFlow :
      cashFlow[y].otherExpense = EventSum(y, "income") - EventSum(y, "expense")

\* C10 as amended: the otherExpense of the row of year y is the sum over all
\* life events of year y in which expense events add their amount and income
\* events subtract theirs; events of other years contribute nothing.
C10_OtherExpenseIsNetExpense ==
  computed =>
    \A y \in DOMAIN cashFlow :
      cashFlow[y].otherExpense = EventSum(y, "expense") - EventSum(y, "income")

C10_Witness ==
  /\ computed
  /\ \E y \in DOMAIN cashFlow :
       /\ EventSum(y, "income") > 0
       /\ EventSum(y, "expense") > 0
       /\ cashFlow[y].otherExpense = EventSum(y, "expense") - EventSum(y, "income")
  /\ \E y \in DOMAIN cashFlow :
       /\ cashFlow[y].otherExpense = 0
       /\ lifeEvents # <<>>

\* the cell c = <<year, field>> of table cf is present and holds v
CellIs(cf, c, v) ==
  /\ c[1] \in DOMAIN cf
  /\ c[2] \in DOMAIN cf[c[1]]
  /\ cf[c[1]][c[2]] = v

\* the table the recurrence gives for the profile and parameters of the state
Recomputed == NewCashFlow(State)

\* the store after the step
StateNext ==
  [currentStep |-> currentStep', basicInfo |-> basicInfo',
   incomeInfo |-> incomeInfo', expenseInfo |-> expenseInfo',
   lifeEvents |-> lifeEvents', assetsLiabilities |-> assetsLiabilities',
   parameters |-> parameters', cashFlow |-> cashFlow']

\* every cell of cells holds in table cf the value it has in table fresh, and
\* its row is absent from cf when fresh has no row for its year
CellsFrom(cf, fresh, cells) ==
  \A c \in cells :
    IF c[1] \in DOMAIN fresh
      THEN CellIs(cf, c, fresh[c[1]][c[2]])
      ELSE c[1] \notin DOMAIN cf

\* a call of one of the setters of C4; each of them ends with a run of
\* initializeCashFlow and leaves the wizard step alone
ProfileSetterStep ==
  /\ computed' /\ currentStep' = currentStep
  /\ \/ setBasicInfo
     \/ setIncomeInfo
     \/ addLifeEvent
     \/ removeLifeEvent
     \/ setAssetsLiabilities
     \/ setParameters

\* a call of setExpenseInfo, which ends with a run of initializeCashFlow too
ExpenseSetterStep ==
  /\ computed' /\ currentStep' = currentStep
  /\ setExpenseInfo

\* C4: when setBasicInfo, setIncomeInfo, addLifeEvent, removeLifeEvent,
\* setAssetsLiabilities or setParameters returns, cashFlow is the table the
\* recurrence gives for the updated profile and parameters: recomputed whole,
\* with no row of the earlier table left over.
C4_SetterRecomputes ==
  [][ProfileSetterStep => cashFlow' = NewCashFlow(StateNext)]_vars

C4_Witness ==
  /\ computed
  /\ basicInfo.maritalStatus = "married"
  /\ incomeInfo.annualIncome = 4000
  /\ Len(lifeEvents) = 1
  /\ assetsLiabilities.assets.cash = 5000
  /\ parameters.investmentReturn = 5
  /\ cashFlow = Recomputed

\* C5: a cell written by updateCashFlowValue does not survive the next profile
\* setter (setExpenseInfo included): after the setter the cell holds what the
\* recurrence gives for it, or its row is gone when its year left the horizon.
C5_OverrideDiscarded ==
  [][(DOMAIN overrides # {} /\ (ProfileSetterStep \/ ExpenseSetterStep))
       => CellsFrom(cashFlow', NewCashFlow(StateNext), DOMAIN overrides)]_vars

C5_Witness ==
  /\ discarded
  /\ computed
  /\ DOMAIN cashFlow # {}
  /\ \A e \in EditInputs : ~CellIs(cashFlow, <<e[1], e[2]>>, e[3])

\* C6: setCurrentStep, an updateCashFlowValue and a mount of the cash-flow
\* form (which initializes only an empty table) drop no override: after the
\* step every cell written since the last replacement of the table still
\* holds the value last written to it.
C6_OverridePersists ==
  [][(setCurrentStep \/ updateCashFlowValue \/ mountCashFlowForm)
       => /\ DOMAIN overrides \subseteq DOMAIN overrides'
          /\ \A c \in DOMAIN overrides' : CellIs(cashFlow', c, overrides'[c])]_vars

C6_Witness ==
  /\ currentStep = 6
  /\ ~computed
  /\ CellIs(cashFlow, <<2025, "mainIncome">>, 90)
  /\ CellIs(cashFlow, <<2026, "mainIncome">>, 70)
  /\ DOMAIN overrides = {<<2025, "mainIncome">>, <<2026, "mainIncome">>}
  /\ cashFlow[2025].spouseIncome > 0

\* every table published by the set() calls of one operation is the table held
\* before the operation or the table held after it
Atomic(sets) ==
  \A i \in DOMAIN sets :
    sets[i].cashFlow = cashFlow \/ sets[i].cashFlow = Last(sets).cashFlow

\* C7: a recompute is atomic for subscribers: whichever operation runs it, the
\* store publishes only the complete old table and the complete new one.
C7_RecomputeAtomic ==
  /\ HorizonOK(State) =>
       /\ Atomic(initializeCashFlowSets(State))
       /\ Atomic(mountCashFlowFormSets(State))
       /\ \A info \in IncomeInfoInputs : Atomic(setIncomeInfoSets(State, info))
       /\ \A info \in ExpenseInfoInputs : Atomic(setExpenseInfoSets(State, info))
       /\ \A event \in LifeEventInputs : Atomic(addLifeEventSets(State, event))
       /\ \A index \in 0..MaxEvents : Atomic(removeLifeEventSets(State, index))
       /\ \A info \in AssetsLiabilitiesInputs :
            Atomic(setAssetsLiabilitiesSets(State, info))
       /\ \A params \in ParametersInputs : Atomic(setParametersSets(State, params))
  /\ \A info \in BasicInfoInputs :
       HorizonOK([State EXCEPT !.basicInfo = Merge(basicInfo, info)])
         => Atomic(setBasicInfoSets(State, info))

C7_Witness ==
  /\ computed
  /\ Cardinality(DOMAIN cashFlow) > 1
  /\ \E event \in LifeEventInputs :
       /\ Last(addLifeEventSets(State, event)).cashFlow # cashFlow
       /\ Atomic(addLifeEventSets(State, event))

\* the table after the edits e1 then e2
Edited(cf, e1, e2) ==
  UpdateCell(UpdateCell(cf, e1[1], e1[2], e1[3]), e2[1], e2[2], e2[3])

\* C8: two updateCashFlowValue calls on different cells give the same table in
\* either order and both values are kept; two calls on the same cell leave
\* the value of the later call.
C8_EditsCommute ==
  \A e1, e2 \in EditInputs :
    IF <<e1[1], e1[2]>> # <<e2[1], e2[2]>>
      THEN /\ Edited(cashFlow, e1, e2) = Edited(cashFlow, e2, e1)
           /\ CellIs(Edited(cashFlow, e1, e2), <<e1[1], e1[2]>>, e1[3])
           /\ CellIs(Edited(cashFlow, e1, e2), <<e2[1], e2[2]>>, e2[3])
      ELSE CellIs(Edited(cashFlow, e1, e2), <<e2[1], e2[2]>>, e2[3])

C8_Witness ==
  /\ DOMAIN overrides = {<<2025, "mainIncome">>, <<2025, "otherExpense">>}
  /\ CellIs(cashFlow, <<2025, "mainIncome">>, 90)
  /\ CellIs(cashFlow, <<2025, "otherExpense">>, 70)
  /\ cashFlow[2025].livingExpense > 0

\* the table a run of initializeCashFlow leaves in state s
TableAfterRun(s) == Last(initializeCashFlowSets(s)).cashFlow

\* C9: the table initializeCashFlow produces is a function of the profile and
\* the parameters alone: a second run changes nothing, and the result is the
\* same whatever table was held before the run (the current one, an empty
\* one, or one with edited cells) and whatever expenseInfo and currentStep are.
C9_Deterministic ==
  HorizonOK(State) =>
    /\ \A info \in ExpenseInfoInputs, step \in Steps :
         TableAfterRun([State EXCEPT !.expenseInfo = Merge(expenseInfo, info),
                                     !.currentStep = step])
           = TableAfterRun(State)
    /\ Last(initializeCashFlowSets(Last(initializeCashFlowSets(State))))
         = Last(initializeCashFlowSets(State))
    /\ TableAfterRun([State EXCEPT !.cashFlow = EmptyTable]) = TableAfterRun(State)
    /\ \A e \in EditInputs :
         TableAfterRun([State EXCEPT !.cashFlow = UpdateCell(cashFlow, e[1], e[2], e[3])])
           = TableAfterRun(State)

C9_Witness ==
  /\ HorizonOK(State)
  /\ DOMAIN overrides # {}
  /\ Cardinality(DOMAIN cashFlow) > 1
  /\ TableAfterRun(State) # cashFlow
  /\ DOMAIN TableAfterRun(State) # DOMAIN cashFlow

\* the fields of a row that hold an income or an expense other than the
\* investment return and the life-event value
PlainFields ==
  {"mainIncome", "sideIncome", "spouseIncome", "livingExpense", "housingExpense",
   "educationExpense"}

\* C11: with non-negative inputs and rates, every row of a recomputed table
\* has mainIncome, sideIncome, spouseIncome, livingExpense, housingExpense and
\* educationExpense >= 0, and investmentIncome >= 0 and equal to 0 when the
\* closing assets carried into the year are <= 0; otherExpense may be negative.
C11_RowsNonNegative ==
  computed =>
    \A i \in 1..Cardinality(DOMAIN cashFlow) :
      /\ \A f \in PlainFields : cashFlow[YearAt(i)][f] >= 0
      /\ cashFlow[YearAt(i)].investmentIncome >= 0
      /\ Closing[i] <= 0 => cashFlow[YearAt(i)].investmentIncome = 0

C11_Witness ==
  /\ computed
  /\ \E y \in DOMAIN cashFlow : cashFlow[y].otherExpense < 0
  /\ \E i \in 1..Cardinality(DOMAIN cashFlow) :
       /\ Closing[i] < 0
       /\ cashFlow[YearAt(i)].investmentIncome = 0
       /\ cashFlow[YearAt(i)].livingExpense > 0
       /\ cashFlow[YearAt(i)].educationExpense > 0

(***************************************************************************)
(* The recurrence on given profiles.  The calculators are pure functions   *)
(* of the profile; this specification starts from a store that holds one   *)
(* of a bounded set of profiles and runs initializeCashFlow on it.         *)
(***************************************************************************)
\* largest deathAge - currentAge of a profile
MaxProfileHorizon == 27

\* the store as constructed
DefaultStore ==
  [currentStep |-> 1,
   basicInfo |-> [currentAge |-> 30, startYear |-> 2025, deathAge |-> 80,
                  monthlyLivingExpense |-> 0, occupation |-> "company_employee",
                  maritalStatus |-> "single",
                  housingInfo |-> [type |-> "rent",
                                   rent |-> [monthlyRent |-> 0,
                                             annualIncreaseRate |-> 0]],
                  children |-> <<>>, plannedChildren |-> <<>>],
   incomeInfo |-> [annualIncome |-> 0, raiseRate |-> 0, severancePay |-> 0,
                   workStartAge |-> 22, workEndAge |-> 60, pensionStartAge |-> 65,
                   pensionAmount |-> 0, sideIncomes |-> <<>>],
   expenseInfo |-> [livingExpense |-> 0,
                    housingInfo |-> [type |-> "rent", monthlyAmount |-> 0],
                    educationExpense |-> [nursery |-> 0, preschool |-> 0,
                                          elementary |-> 0, juniorHigh |-> 0,
                                          highSchool |-> 0, university |-> 0]],
   lifeEvents |-> <<>>,
   assetsLiabilities |-> [assets |-> [cash |-> 0, savings |-> 0, stocks |-> 0,
                                      investmentTrust |-> 0, realEstate |-> 0],
                          liabilities |-> [loans |-> 0, creditCards |-> 0]],
   parameters |-> [inflationRate |-> 1, educationCostIncreaseRate |-> 2,
                   investmentReturn |-> 3],
   cashFlow |-> EmptyTable]

\* a profile: what the forms have put on top of the constructed store
Profile(bi, ii, pa, le) ==
  [basicInfo |-> Merge(DefaultStore.basicInfo, bi),
   incomeInfo |-> Merge(DefaultStore.incomeInfo, ii),
   parameters |-> Merge(DefaultStore.parameters, pa),
   lifeEvents |-> le]

\* no field changed
Untouched == EmptyTable

\* a household living on 20 a month up to the age of 32, with the inflation
\* rate of the constructed store and with none
LivingOnlyProfiles ==
  {Profile([deathAge |-> 32, monthlyLivingExpense |-> 200], Untouched, pa, <<>>) :
     pa \in {Untouched, [inflationRate |-> 0]}}

\* a child who attends nothing but a public humanities university
UniversityOnlyPlan ==
  [nursery |-> "none", preschool |-> "none", elementary |-> "none",
   juniorHigh |-> "none", highSchool |-> "none",
   university |-> "public_humanities"]

\* one track in the five school bands and one university tier
TrackPlan(track, university) ==
  [nursery |-> track, preschool |-> track, elementary |-> track,
   juniorHigh |-> track, highSchool |-> track, university |-> university]

PublicTiers == {"public_humanities", "public_science"}

PrivateTiers == {"private_humanities", "private_science"}

\* a child who attends nothing
NonePlan ==
  [nursery |-> "none", preschool |-> "none", elementary |-> "none",
   juniorHigh |-> "none", highSchool |-> "none", university |-> "none"]

\* the education-cost growth rates of the profiles, in percent
GrowthRates == {0, 2}

\* one child planned five years from the start, followed to the age of 22
PlannedChildProfiles ==
  {Profile([deathAge |-> 30 + MaxProfileHorizon,
            plannedChildren |-> <<[yearsFromNow |-> 5, educationPlan |-> plan]>>],
           Untouched, [educationCostIncreaseRate |-> rate], <<>>) :
     plan \in {UniversityOnlyPlan, PublicPlan, PrivatePlan, NonePlan,
               TrackPlan("private", "private_humanities")},
     rate \in GrowthRates}

\* a head aged 30 to 33 whose work window and pension start lie around
\* these ages
WindowProfiles ==
  {Profile([deathAge |-> 33],
           [annualIncome |-> 4000, raiseRate |-> 2, workStartAge |-> ws,
            workEndAge |-> we, pensionStartAge |-> ps],
           Untouched, <<>>) :
     ws \in {22, 31}, we \in {30, 32}, ps \in {31, 33, 65}}

\* what the basic-information form may hold about a spouse: nothing, or some
\* of currentAge (married), marriageAge and age (planning), occupation
SpouseInfos ==
  {[occupation |-> "part_time_with_pension"],
   [currentAge |-> 28],
   [marriageAge |-> 31],
   [age |-> 29],
   [marriageAge |-> 31, age |-> 29],
   [marriageAge |-> 30, age |-> 59, occupation |-> "self_employed"],
   [marriageAge |-> 31, age |-> 59],
   [currentAge |-> 28, marriageAge |-> 31, age |-> 29]}

\* the spouse part of the income form
SpouseCareer ==
  [annualIncome |-> 1000, severancePay |-> 0, workStartAge |-> 20,
   workEndAge |-> 60, pensionAmount |-> 0]

\* the basic-information parts of the spouse profiles
SpouseForms ==
  {[deathAge |-> 32, maritalStatus |-> ms] :
     ms \in {"single", "married", "planning"}}
  \cup {[deathAge |-> 32, maritalStatus |-> ms, spouseInfo |-> si] :
          ms \in {"single", "married", "planning"}, si \in SpouseInfos}

\* every marital status with every state of the spouse data, with and without
\* the spouse part of the income form
SpouseProfiles ==
  {Profile(bi, ii, Untouched, <<>>) :
     bi \in SpouseForms,
     ii \in {Untouched, [pensionStartAge |-> 60, spouse |-> SpouseCareer]}}

\* the schooling bands of an education plan
BandNames ==
  {"nursery", "preschool", "elementary", "juniorHigh", "highSchool", "university"}

\* a child who attends band b alone, on the public track
AttendOnly(b) ==
  [NonePlan EXCEPT ![b] = IF b = "university" THEN "public_humanities" ELSE "public"]

\* one child, born in the start year or planned five years later, who attends
\* a single band, followed over the whole profile horizon
BandProfiles ==
  {Profile([deathAge |-> 30 + MaxProfileHorizon,
            children |-> <<[currentAge |-> 0, educationPlan |-> AttendOnly(b)]>>],
           Untouched, Untouched, <<>>) : b \in BandNames}
  \cup {Profile([deathAge |-> 30 + MaxProfileHorizon,
                 plannedChildren |-> <<[yearsFromNow |-> 5,
                                        educationPlan |-> AttendOnly(b)]>>],
                Untouched, Untouched, <<>>) : b \in BandNames}

\* one child born in the start year, followed to the age of 27
ExistingChildProfiles ==
  {Profile([deathAge |-> 30 + MaxProfileHorizon,
            children |-> <<[currentAge |-> 0, educationPlan |-> plan]>>],
           Untouched, [educationCostIncreaseRate |-> rate], <<>>) :
     plan \in {PublicPlan, PrivatePlan, NonePlan,
               TrackPlan("private", "private_humanities")},
     rate \in GrowthRates}

\* a future marriage, two children, two planned children and life events that
\* fall in the same year or in different years
EventfulProfiles ==
  {Profile([deathAge |-> 33, maritalStatus |-> "planning",
            spouseInfo |-> [marriageAge |-> 32],
            children |-> kids, plannedChildren |-> planned],
           Untouched, Untouched, le) :
     kids \in {<<>>, <<[currentAge |-> 3, educationPlan |-> NonePlan],
                       [currentAge |-> 0, educationPlan |-> NonePlan]>>},
     planned \in {<<>>, <<[yearsFromNow |-> 2, educationPlan |-> NonePlan],
                          [yearsFromNow |-> 2, educationPlan |-> NonePlan]>>},
     le \in {<<>>,
             <<[year |-> 2025, description |-> "car", type |-> "expense",
                category |-> "other", amount |-> 500]>>,
             <<[year |-> 2027, description |-> "car", type |-> "expense",
                category |-> "other", amount |-> 500],
               [year |-> 2027, description |-> "gift", type |-> "income",
                category |-> "other", amount |-> 125]>>}}

Profiles ==
  LivingOnlyProfiles \cup PlannedChildProfiles \cup WindowProfiles
  \cup SpouseProfiles \cup BandProfiles \cup ExistingChildProfiles
  \cup EventfulProfiles

(***************************************************************************)
(* The event line of the cash-flow table.  Texts are strings; the labels   *)
(* are written in ASCII: "marriage" for the marriage label, "child n born" *)
(* for a birth label, ", " for the separator.                              *)
(***************************************************************************)
Separator == ", "

MarriageLabel == "marriage"

BirthLabel(n) == "child " \o ToString(n) \o " born"

\* a non-negative amount kept in tenths, printed as the number it stands for
FormatAmount(a) ==
  IF a % 10 = 0 THEN ToString(a \div 10)
  ELSE ToString(a \div 10) \o "." \o ToString(a % 10)

EventLabel(event) ==
  event.description \o "(" \o (IF event.type = "income" THEN "+" ELSE "-")
    \o FormatAmount(event.amount) \o ")"

\* Array.prototype.join
RECURSIVE Join(_, _)
Join(labels, sep) ==
  IF Len(labels) = 0 THEN ""
  ELSE IF Len(labels) = 1 THEN labels[1]
  ELSE labels[1] \o sep \o Join(Tail(labels), sep)

\* basicInfo.spouseInfo?.marriageAge || 0
MarriageAgeOrZero(bi) ==
  IF Has(bi, "spouseInfo") /\ Has(bi.spouseInfo, "marriageAge")
  THEN bi.spouseInfo.marriageAge ELSE 0

MarriageLabels(year, bi) ==
  IF /\ bi.maritalStatus = "planning"
     /\ year = bi.startYear + (MarriageAgeOrZero(bi) - bi.currentAge)
  THEN <<MarriageLabel>> ELSE <<>>

\* children.forEach: the child at the array index i - 1 is the i-th child
ChildBirthLabels(year, bi, children) ==
  LET born == SelectSeq([i \in 1..Len(children) |-> i],
                        LAMBDA i : year = bi.startYear - children[i].currentAge)
  IN  [k \in 1..Len(born) |-> BirthLabel(born[k])]

\* planned children numbered from the first
PlannedBirthLabelsFromOne(year, bi, children, plannedChildren) ==
  LET born == SelectSeq([i \in 1..Len(plannedChildren) |-> i],
                        LAMBDA i : year = bi.startYear + plannedChildren[i].yearsFromNow)
  IN  [k \in 1..Len(born) |-> BirthLabel(born[k])]

\* plannedChildren.forEach
PlannedBirthLabels(year, bi, children, plannedChildren) ==
  LET born == SelectSeq([i \in 1..Len(plannedChildren) |-> i],
                        LAMBDA i : year = bi.startYear + plannedChildren[i].yearsFromNow)
  IN  [k \in 1..Len(born) |-> BirthLabel(Len(children) + born[k])]

LifeEventLabels(year, events) ==
  LET yearEvents == SelectSeq(events, LAMBDA event : event.year = year)
  IN  [k \in 1..Len(yearEvents) |-> EventLabel(yearEvents[k])]

\* the array events before it is joined
DescriptionLabels(year, bi, children, plannedChildren, events) ==
  MarriageLabels(year, bi) \o ChildBirthLabels(year, bi, children)
    \o PlannedBirthLabels(year, bi, children, plannedChildren)
    \o LifeEventLabels(year, events)

getLifeEventDescription(year, bi, children, plannedChildren, events) ==
  Join(DescriptionLabels(year, bi, children, plannedChildren, events), Separator)

\* the head's age in the i-th horizon year
AgeAt(i) == basicInfo.currentAge + (i - 1)

\* the head's age in the i-th horizon year is outside the work window
OutsideWindow(i) ==
  AgeAt(i) < incomeInfo.workStartAge \/ AgeAt(i) > incomeInfo.workEndAge

\* the pension of the head
HeadPension ==
  calculatePension(incomeInfo.annualIncome, incomeInfo.workStartAge,
                   incomeInfo.workEndAge, incomeInfo.pensionStartAge,
                   basicInfo.occupation)

ProfileInit ==
  /\ \E p \in Profiles :
       /\ basicInfo = p.basicInfo
       /\ incomeInfo = p.incomeInfo
       /\ parameters = p.parameters
       /\ lifeEvents = p.lifeEvents
  /\ currentStep = DefaultStore.currentStep
  /\ expenseInfo = DefaultStore.expenseInfo
  /\ assetsLiabilities = DefaultStore.assetsLiabilities
  /\ cashFlow = DefaultStore.cashFlow
  /\ computed = FALSE
  /\ overrides = EmptyTable
  /\ discarded = FALSE

ProfileHorizonOK(s) ==
  s.basicInfo.deathAge - s.basicInfo.currentAge <= MaxProfileHorizon

\* initializeCashFlow on the profile held by the store
initializeCashFlowOnProfile ==
  /\ ProfileHorizonOK(State)
  /\ Recomputing(initializeCashFlowSets(State))

ProfileNext == initializeCashFlowOnProfile

ProfileSpec == ProfileInit /\ [][ProfileNext]_vars

\* C12 as stated: in every horizon year in which the head's age is below
\* workStartAge or above workEndAge, mainIncome is exactly 0.
C12_NoMainIncomeOutsideWindow ==
  computed =>
    \A i \in 1..Cardinality(DOMAIN cashFlow) :
      OutsideWindow(i) => cashFlow[YearAt(i)].mainIncome = 0

\* C12 as amended: in every horizon year in which the head's age is outside
\* the work window, mainIncome holds no salary: it is exactly 0 while the age
\* is below pensionStartAge and exactly the pension from pensionStartAge on.
C12_OnlyPensionOutsideWindow ==
  computed =>
    \A i \in 1..Cardinality(DOMAIN cashFlow) :
      OutsideWindow(i) =>
        cashFlow[YearAt(i)].mainIncome
          = (IF AgeAt(i) >= incomeInfo.pensionStartAge THEN HeadPension ELSE 0)

C12_Witness ==
  /\ computed
  /\ \E i \in 1..Cardinality(DOMAIN cashFlow) :
       AgeAt(i) < incomeInfo.workStartAge /\ cashFlow[YearAt(i)].mainIncome = 0
  /\ \E i \in 1..Cardinality(DOMAIN cashFlow) :
       ~OutsideWindow(i) /\ cashFlow[YearAt(i)].mainIncome > 0
  /\ \E i \in 1..Cardinality(DOMAIN cashFlow) :
       /\ AgeAt(i) > incomeInfo.workEndAge
       /\ AgeAt(i) >= incomeInfo.pensionStartAge
       /\ cashFlow[YearAt(i)].mainIncome = HeadPension
       /\ HeadPension > 0

\* the spouse data that the branch of the marital status reads is incomplete
MissingSpouseData ==
  \/ basicInfo.maritalStatus = "single"
  \/ ~Has(basicInfo, "spouseInfo")
  \/ ~Has(incomeInfo, "spouse")
  \/ basicInfo.maritalStatus = "married" /\ ~Has(basicInfo.spouseInfo, "currentAge")
  \/ /\ basicInfo.maritalStatus = "planning"
     /\ (~Has(basicInfo.spouseInfo, "marriageAge") \/ ~Has(basicInfo.spouseInfo, "age"))

\* a complete table whose rows all have spouseIncome 0
NoSpouseIncomeIn(table) ==
  /\ DOMAIN table = HorizonYears
  /\ \A y \in DOMAIN table : table[y].spouseIncome = 0

\* C13: when maritalStatus is 'single', or spouseInfo, the age field read by
\* the branch (currentAge when married; marriageAge or age when planning) or
\* incomeInfo.spouse is absent, initializeCashFlow yields a complete table and
\* spouseIncome is 0 in every row.
C13_MissingSpouseIsZero ==
  MissingSpouseData =>
    /\ NoSpouseIncomeIn(TableAfterRun(State))
    /\ computed => NoSpouseIncomeIn(cashFlow)

C13_Witness ==
  /\ computed
  /\ basicInfo.maritalStatus = "planning"
  /\ Has(incomeInfo, "spouse")
  /\ Has(basicInfo, "spouseInfo")
  /\ Has(basicInfo.spouseInfo, "marriageAge")
  /\ ~Has(basicInfo.spouseInfo, "age")
  /\ NoSpouseIncomeIn(cashFlow)

\* the planning branch has all it reads
PlanningComplete ==
  /\ basicInfo.maritalStatus = "planning"
  /\ Has(basicInfo, "spouseInfo")
  /\ Has(basicInfo.spouseInfo, "marriageAge")
  /\ Has(basicInfo.spouseInfo, "age")
  /\ Has(incomeInfo, "spouse")

\* startYear + (spouseInfo.marriageAge - currentAge)
MarriageYear ==
  basicInfo.startYear + (basicInfo.spouseInfo.marriageAge - basicInfo.currentAge)

\* the spouse's salary of year y, the years counted from base, when the spouse
\* is a years old
SpouseSalary(a, y, base) ==
  IF a >= incomeInfo.spouse.workStartAge /\ a <= incomeInfo.spouse.workEndAge
    THEN calculateNetIncomeWithRaise(incomeInfo.spouse.annualIncome,
                                     SpouseOccupation(basicInfo), 0, y, base)
    ELSE 0

\* the spouse's pension when the spouse is a years old
SpousePension(a) ==
  IF a >= incomeInfo.pensionStartAge
    THEN calculatePension(incomeInfo.spouse.annualIncome,
                          incomeInfo.spouse.workStartAge,
                          incomeInfo.spouse.workEndAge, incomeInfo.pensionStartAge,
                          SpouseOccupation(basicInfo))
    ELSE 0

\* C14: under 'planning', with marriageYear = startYear + (marriageAge -
\* currentAge), spouseIncome is 0 in every row before marriageYear; from
\* marriageYear on it is the income of a spouse aged spouseInfo.age + (year -
\* marriageYear), the salary's years being counted from marriageYear.
C14_PlannedSpouseFromMarriage ==
  (computed /\ PlanningComplete) =>
    \A y \in DOMAIN cashFlow :
      cashFlow[y].spouseIncome =
        (IF y < MarriageYear THEN 0
         ELSE SpouseSalary(basicInfo.spouseInfo.age + (y - MarriageYear), y, MarriageYear)
              + SpousePension(basicInfo.spouseInfo.age + (y - MarriageYear)))

C14_Witness ==
  /\ computed
  /\ PlanningComplete
  /\ MarriageYear = basicInfo.startYear + 1
  /\ cashFlow[basicInfo.startYear].spouseIncome = 0
  /\ cashFlow[MarriageYear].spouseIncome > 0
  /\ SpousePension(basicInfo.spouseInfo.age) = 0
  /\ SpousePension(basicInfo.spouseInfo.age + 1) > 0
  /\ cashFlow[MarriageYear + 1].spouseIncome > cashFlow[MarriageYear].spouseIncome

\* the ages of the band b, as the specification lists them
BandAges(b) ==
  CASE b = "nursery"    -> 0..2
    [] b = "preschool"  -> 3..5
    [] b = "elementary" -> 6..11
    [] b = "juniorHigh" -> 12..14
    [] b = "highSchool" -> 15..17
    [] b = "university" -> 18..21

\* the child ages on which the calculator is probed
ProbeAges == (0 - 3)..25

\* the household has exactly one child, existing or planned
OneChild ==
  Len(basicInfo.children) + Len(basicInfo.plannedChildren) = 1

\* the education plan of the only child
TheChildPlan ==
  IF basicInfo.children # <<>> THEN basicInfo.children[1].educationPlan
                               ELSE basicInfo.plannedChildren[1].educationPlan

\* the age of the only child in year y (negative before the birth of a
\* planned child)
TheChildAge(y) ==
  IF basicInfo.children # <<>>
    THEN basicInfo.children[1].currentAge + (y - basicInfo.startYear)
    ELSE (y - basicInfo.startYear) - basicInfo.plannedChildren[1].yearsFromNow

\* the child of plan `plan` attends some band at age a
Attends(plan, a) ==
  \E b \in BandNames : a \in BandAges(b) /\ plan[b] # "none"

\* C15: each child age maps to at most one band; the bands nursery 0-2,
\* preschool 3-5, elementary 6-11, juniorHigh 12-14, highSchool 15-17 and
\* university 18-21 cover every age 0..21 without overlap; a child below 0 or
\* above 21 contributes 0, an existing and a planned child alike.  (A child
\* who attends band b alone costs something exactly at the ages of b.)
C15_BandsPartitionAges ==
  /\ \A a \in ProbeAges :
       /\ \A b \in BandNames : ChildExpense(AttendOnly(b), a) > 0 <=> a \in BandAges(b)
       /\ Cardinality({b \in BandNames : ChildExpense(AttendOnly(b), a) > 0})
            = (IF a >= 0 /\ a <= 21 THEN 1 ELSE 0)
       /\ (a < 0 \/ a > 21) =>
            ChildExpense(PublicPlan, a) = 0 /\ ChildExpense(PrivatePlan, a) = 0
  /\ (computed /\ OneChild) =>
       \A y \in DOMAIN cashFlow :
         cashFlow[y].educationExpense > 0 <=> Attends(TheChildPlan, TheChildAge(y))

C15_Witness ==
  /\ computed
  /\ OneChild
  /\ TheChildPlan = AttendOnly("elementary")
  /\ basicInfo.plannedChildren # <<>>
  /\ \E y \in DOMAIN cashFlow : TheChildAge(y) > 21
  /\ \A y \in DOMAIN cashFlow :
       cashFlow[y].educationExpense > 0 <=> TheChildAge(y) \in 6..11

\* the education expense of year y with the children of the state joined by
\* the existing children more and the planned children morePlanned
EducationWith(more, morePlanned, y) ==
  calculateEducationExpense(basicInfo.children \o more,
                            basicInfo.plannedChildren \o morePlanned, y,
                            basicInfo.currentAge, basicInfo.startYear,
                            parameters.educationCostIncreaseRate)

\* C16: a child, existing or planned, whose track is "does not attend" in all
\* six bands adds nothing to the education expense of any horizon year, at
\* every growth rate: alone it yields 0, and joining a household it leaves
\* the household's expense as it was.
C16_NonAttendingChildIsFree ==
  /\ \A a \in ProbeAges : ChildExpense(NonePlan, a) = 0
  /\ ProfileHorizonOK(State) =>
       \A y \in HorizonYears, a \in {0, 10} :
         /\ EducationWith(<<[currentAge |-> a, educationPlan |-> NonePlan]>>, <<>>, y)
              = EducationWith(<<>>, <<>>, y)
         /\ EducationWith(<<>>, <<[yearsFromNow |-> a, educationPlan |-> NonePlan]>>, y)
              = EducationWith(<<>>, <<>>, y)
  /\ (computed /\ OneChild /\ TheChildPlan = NonePlan) =>
       \A y \in DOMAIN cashFlow : cashFlow[y].educationExpense = 0

C16_Witness ==
  /\ computed
  /\ OneChild
  /\ TheChildPlan = NonePlan
  /\ basicInfo.children # <<>>
  /\ parameters.educationCostIncreaseRate = 2
  /\ \E y \in DOMAIN cashFlow : TheChildAge(y) = 0
  /\ \E y \in DOMAIN cashFlow : TheChildAge(y) = 21
  /\ \A y \in DOMAIN cashFlow : cashFlow[y].educationExpense = 0

\* the education expense of year y when the only child of the household
\* follows plan `plan`
EducationOnPlan(plan, y) ==
  IF basicInfo.children # <<>>
    THEN calculateEducationExpense(
           <<[basicInfo.children[1] EXCEPT !.educationPlan = plan]>>, <<>>, y,
           basicInfo.currentAge, basicInfo.startYear,
           parameters.educationCostIncreaseRate)
    ELSE calculateEducationExpense(
           <<>>, <<[basicInfo.plannedChildren[1] EXCEPT !.educationPlan = plan]>>, y,
           basicInfo.currentAge, basicInfo.startYear,
           parameters.educationCostIncreaseRate)

\* C17: for the same child and the same growth rate, the expense with the
\* private track in every band (either private university tier) is >= the
\* expense with the public track in every band (either public tier), in
\* every horizon year.
C17_PrivateAtLeastPublic ==
  \A private \in PrivateTiers, public \in PublicTiers :
    /\ \A a \in ProbeAges :
         ChildExpense(TrackPlan("private", private), a)
           >= ChildExpense(TrackPlan("public", public), a)
    /\ (OneChild /\ ProfileHorizonOK(State)) =>
         \A y \in HorizonYears :
           EducationOnPlan(TrackPlan("private", private), y)
             >= EducationOnPlan(TrackPlan("public", public), y)

C17_Witness ==
  /\ computed
  /\ OneChild
  /\ TheChildPlan = TrackPlan("private", "private_humanities")
  /\ parameters.educationCostIncreaseRate = 2
  /\ \A y \in DOMAIN cashFlow :
       cashFlow[y].educationExpense
         >= EducationOnPlan(TrackPlan("public", "public_science"), y)
  /\ \E y \in DOMAIN cashFlow :
       /\ TheChildAge(y) = 18
       /\ cashFlow[y].educationExpense
            > EducationOnPlan(TrackPlan("public", "public_science"), y)

\* the household has no child but one planned five years from the start
\* whose university track is the public humanities one
PlannedAtFive ==
  /\ basicInfo.children = <<>>
  /\ Len(basicInfo.plannedChildren) = 1
  /\ basicInfo.plannedChildren[1].yearsFromNow = 5
  /\ basicInfo.plannedChildren[1].educationPlan.university = "public_humanities"

\* startYear + 5
BirthYear == basicInfo.startYear + 5

\* the education expense of every row: 325 grown at the education rate over
\* the years since the start, to one decimal, in the four university years,
\* and 0 in every other year
UniversityYearsOnly ==
  \A y \in DOMAIN cashFlow :
    cashFlow[y].educationExpense =
      (IF y >= BirthYear + 18 /\ y <= BirthYear + 21
         THEN Round1(3250, PowFactors(parameters.educationCostIncreaseRate,
                                      y - basicInfo.startYear))
         ELSE 0)

\* C18 as stated: with a single planned child having yearsFromNow = 5 and the
\* public humanities university track, educationExpense is 0 before birth
\* year + 18, 325 x (1 + rate/100)^(years since start) from birth year + 18 to
\* birth year + 21, and 0 in every later year.
C18_PlannedChildScenario ==
  (computed /\ PlannedAtFive) => UniversityYearsOnly

\* C18 as amended: the same, for a child who attends none of the five bands
\* before university, the amounts being rounded to one decimal; at the rate
\* of 2 per cent the four university years cost 512.5, 522.7, 533.2, 543.9.
C18_UniversityOnlyScenario ==
  (computed /\ PlannedAtFive
     /\ basicInfo.plannedChildren[1].educationPlan = UniversityOnlyPlan)
    => /\ UniversityYearsOnly
       /\ parameters.educationCostIncreaseRate = 0 =>
            \A y \in (BirthYear + 18)..(BirthYear + 21) :
              cashFlow[y].educationExpense = 3250
       /\ parameters.educationCostIncreaseRate = 2 =>
            /\ cashFlow[BirthYear + 18].educationExpense = 5125
            /\ cashFlow[BirthYear + 19].educationExpense = 5227
            /\ cashFlow[BirthYear + 20].educationExpense = 5332
            /\ cashFlow[BirthYear + 21].educationExpense = 5439

C18_Witness ==
  /\ computed
  /\ PlannedAtFive
  /\ basicInfo.plannedChildren[1].educationPlan = UniversityOnlyPlan
  /\ parameters.educationCostIncreaseRate = 2
  /\ cashFlow[BirthYear].educationExpense = 0
  /\ cashFlow[BirthYear + 17].educationExpense = 0
  /\ cashFlow[BirthYear + 18].educationExpense = 5125
  /\ cashFlow[BirthYear + 22].educationExpense = 0

\* currentAge 30, startYear 2025, deathAge 32, monthlyLivingExpense 20, no
\* income, no assets, no life events
LivingOnly ==
  /\ basicInfo = Merge(DefaultStore.basicInfo,
                       [deathAge |-> 32, monthlyLivingExpense |-> 200])
  /\ incomeInfo = DefaultStore.incomeInfo
  /\ NetInitialAssets = 0
  /\ lifeEvents = <<>>

\* a row with the living expense v and 0 in every other field
LivingRow(v) ==
  [mainIncome |-> 0, sideIncome |-> 0, investmentIncome |-> 0, spouseIncome |-> 0,
   livingExpense |-> v, housingExpense |-> 0, educationExpense |-> 0,
   otherExpense |-> 0]

\* the table has the rows of 2025, 2026 and 2027, with the living expenses
\* a, b and c and nothing else, and the closing assets fall by them
LivingTable(a, b, c) ==
  /\ DOMAIN cashFlow = {2025, 2026, 2027}
  /\ cashFlow[2025] = LivingRow(a)
  /\ cashFlow[2026] = LivingRow(b)
  /\ cashFlow[2027] = LivingRow(c)
  /\ Closing = <<0, 0 - a, 0 - (a + b), 0 - (a + b + c)>>

\* C19 as stated: the recompute of the scenario yields the rows 2025, 2026
\* and 2027, each with livingExpense = 240 and every other field 0, and the
\* closing assets decrease by 240 per year.
C19_LivingScenario ==
  (computed /\ LivingOnly) => LivingTable(2400, 2400, 2400)

\* C19 as amended: that is the table when inflationRate is 0; with the
\* inflationRate of the constructed store, 1 per cent, the living expenses
\* are 240, 242.4 and 244.8 and the closing assets -240, -482.4 and -727.2.
C19_LivingScenarioInflated ==
  (computed /\ LivingOnly) =>
    /\ parameters.inflationRate = 0 => LivingTable(2400, 2400, 2400)
    /\ parameters.inflationRate = 1 => LivingTable(2400, 2424, 2448)

C19_Witness ==
  /\ computed
  /\ LivingOnly
  /\ parameters.inflationRate = 1
  /\ parameters = DefaultStore.parameters
  /\ cashFlow[2026].livingExpense = 2424
  /\ Closing[4] = 0 - 7272

\* the years the event line is asked for: from the head's birth year to the
\* end of the longest horizon
DescriptionYears ==
  (basicInfo.startYear - basicInfo.currentAge)
    ..(basicInfo.startYear + MaxProfileHorizon)

\* the event line of the year y as the table shows it
DescriptionOf(y) ==
  getLifeEventDescription(y, basicInfo, basicInfo.children,
                          basicInfo.plannedChildren, lifeEvents)

LabelsOf(y) ==
  DescriptionLabels(y, basicInfo, basicInfo.children,
                    basicInfo.plannedChildren, lifeEvents)

Marries(y) ==
  /\ basicInfo.maritalStatus = "planning"
  /\ y = basicInfo.startYear + (MarriageAgeOrZero(basicInfo) - basicInfo.currentAge)

ChildrenBorn(y) ==
  {i \in 1..Len(basicInfo.children) :
     basicInfo.startYear - basicInfo.children[i].currentAge = y}

PlannedBorn(y) ==
  {j \in 1..Len(basicInfo.plannedChildren) :
     basicInfo.startYear + basicInfo.plannedChildren[j].yearsFromNow = y}

EventsOf(y) == {k \in 1..Len(lifeEvents) : lifeEvents[k].year = y}

Labelled(y, label) == \E n \in 1..Len(LabelsOf(y)) : LabelsOf(y)[n] = label

\* the labels in the order marriage, children, planned children, life events
InOrder(labels, rank(_)) ==
  \A m, n \in 1..Len(labels) : m < n => rank(labels[m]) <= rank(labels[n])

LabelRank(label) ==
  IF label = MarriageLabel THEN 0
  ELSE IF \E n \in 1..(Len(basicInfo.children) + Len(basicInfo.plannedChildren)) :
            label = BirthLabel(n)
       THEN CHOOSE n \in 1..(Len(basicInfo.children) + Len(basicInfo.plannedChildren)) :
              label = BirthLabel(n)
       ELSE 100

HeadSalary(i) ==
  IF OutsideWindow(i) THEN 0
  ELSE calculateNetIncomeWithRaise(incomeInfo.annualIncome, basicInfo.occupation,
                                   incomeInfo.raiseRate, YearAt(i),
                                   basicInfo.startYear)

\* what mainIncome holds above the salary in the i-th horizon year
PensionPart(i) == cashFlow[YearAt(i)].mainIncome - HeadSalary(i)

\* C21: mainIncome holds the pension in exactly the horizon years whose age
\* is at or past pensionStartAge and in no earlier year, the same amount in
\* each of them; in a year inside the work window and at or past
\* pensionStartAge it is the salary plus the pension.
C21_PensionFromStartAge ==
  computed =>
    \A i \in 1..Cardinality(DOMAIN cashFlow) :
      /\ AgeAt(i) < incomeInfo.pensionStartAge => PensionPart(i) = 0
      /\ AgeAt(i) >= incomeInfo.pensionStartAge => PensionPart(i) = HeadPension
      /\ \A j \in 1..Cardinality(DOMAIN cashFlow) :
           (AgeAt(i) >= incomeInfo.pensionStartAge
              /\ AgeAt(j) >= incomeInfo.pensionStartAge)
             => PensionPart(i) = PensionPart(j)

\* a head who works to 32 and draws the pension from 31: no pension at 30,
\* salary and pension at 31 and 32, the pension alone at 33
C21_Witness ==
  /\ computed
  /\ HeadPension > 0
  /\ incomeInfo.pensionStartAge = 31 /\ incomeInfo.workEndAge = 32
  /\ cashFlow[2025].mainIncome = HeadSalary(1) /\ HeadSalary(1) > 0
  /\ cashFlow[2026].mainIncome = HeadSalary(2) + HeadPension /\ HeadSalary(2) > 0
  /\ cashFlow[2027].mainIncome = HeadSalary(3) + HeadPension /\ HeadSalary(3) > 0
  /\ cashFlow[2028].mainIncome = HeadPension

(***************************************************************************)
(* The figures that the cash-flow form and the results chart derive from   *)
(* the store state each time they render.  Both components hold the same   *)
(* code.  A sum that reads a field the row does not hold is NaN.           *)
(***************************************************************************)
NaN == "NaN"

IsNumber(x) == x \in Int

Plus(a, b) == IF IsNumber(a) /\ IsNumber(b) THEN a + b ELSE NaN

\* the fields of a row that the balance reads
BalanceFields ==
  {"mainIncome", "sideIncome", "spouseIncome", "livingExpense", "housingExpense",
   "educationExpense", "otherExpense"}

\* the life events of the year: income counted positive, expense negative
RECURSIVE lifeEventImpact(_, _)
lifeEventImpact(events, year) ==
  IF events = <<>> THEN 0
  ELSE (IF Head(events).year # year THEN 0
        ELSE IF Head(events).type = "income" THEN Head(events).amount
        ELSE 0 - Head(events).amount)
       + lifeEventImpact(Tail(events), year)

\* yearlyBalances[year]
yearlyBalance(s, year) ==
  IF year \notin DOMAIN s.cashFlow THEN 0
  ELSE IF ~(BalanceFields \subseteq DOMAIN s.cashFlow[year]) THEN NaN
  ELSE LET cf == s.cashFlow[year]
       IN  (cf.mainIncome + cf.sideIncome + cf.spouseIncome)
           - (cf.livingExpense + cf.housingExpense + cf.educationExpense
              + cf.otherExpense)
           + lifeEventImpact(s.lifeEvents, year)

\* Number((assets * (investmentReturn / 100)).toFixed(1))
ViewReturn(assets, pa) ==
  IF IsNumber(assets) THEN Round1(assets, <<pa.investmentReturn>>) ELSE NaN

\* one entry of investmentData: the assets and the returns of a year
ViewEntry(assets, pa) == [assets |-> assets, returns |-> ViewReturn(assets, pa)]

\* the entries of the years from the i-th on; prev is the entry before them
RECURSIVE investmentDataFrom(_, _, _, _)
investmentDataFrom(s, years, i, prev) ==
  IF i > Len(years) THEN <<>>
  ELSE LET entry == ViewEntry(Plus(Plus(prev.assets, prev.returns),
                                   yearlyBalance(s, years[i])),
                              s.parameters)
       IN  <<entry>> \o investmentDataFrom(s, years, i + 1, entry)

\* investmentData: the first year starts from the net assets and no return
investmentData(s) ==
  investmentDataFrom(s, Years(s.basicInfo), 1,
                     [assets |-> InitialAssets(s.assetsLiabilities), returns |-> 0])

\* the same figures as the results chart derives them
chartInvestmentData(s) == investmentData(s)

\* the life-event net effect of year y: incomes less expenses, each event once
LifeEventNet(y) == EventSum(y, "income") - EventSum(y, "expense")

\* C22: for every year of a computed table without overrides, the yearly
\* balance that the cash-flow table shows is the row's total income
\* (main + side + spouse) less its total expenses (living + housing +
\* education) plus the life-event net effect of the year, each life event of
\* the year counted once.
C22_BalanceCountsEventsOnce ==
  computed =>
    \A y \in DOMAIN cashFlow :
      yearlyBalance(State, y)
        = (cashFlow[y].mainIncome + cashFlow[y].sideIncome + cashFlow[y].spouseIncome)
          - (cashFlow[y].livingExpense + cashFlow[y].housingExpense
             + cashFlow[y].educationExpense)
          + LifeEventNet(y)

\* the total-assets series shown for the computed table
Shown == investmentData(State)

\* C23: in the total-assets series shown by the cash-flow table and the
\* results chart, a year whose balance of assets is 0 or less earns a
\* return of 0: none is shown for it and the next year's assets are this
\* year's assets plus the next year's balance alone.
C23_NoReturnOnShownDeficit ==
  computed =>
    \A i \in 1..Len(Shown) :
      Shown[i].assets <= 0 =>
        /\ Shown[i].returns = 0
        /\ chartInvestmentData(State)[i].returns = 0
        /\ i < Len(Shown) =>
             Shown[i + 1].assets = Shown[i].assets + yearlyBalance(State, YearAt(i + 1))

\* the edits of the form and an edit of a year that has no row
FrameEdits == EditInputs \cup {<<2030, "mainIncome", 70>>}

\* the fields of row y of table cf; none when the row is absent
FieldsOf(cf, y) == IF y \in DOMAIN cf THEN DOMAIN cf[y] ELSE {}

\* C24: updateCashFlowValue(year, field, value) changes the cell
\* (year, field) alone: the other fields of that row, the other rows,
\* basicInfo, incomeInfo, expenseInfo, lifeEvents, assetsLiabilities,
\* parameters and currentStep are as before, and the store is set once,
\* with no recompute.
C24_UpdateChangesOneCell ==
  HorizonOK(State) => \A e \in FrameEdits :
    LET sets == updateCashFlowValueSets(State, e[1], e[2], e[3])
        after == Last(sets)
    IN  /\ CellIs(after.cashFlow, <<e[1], e[2]>>, e[3])
        /\ DOMAIN after.cashFlow = DOMAIN cashFlow \cup {e[1]}
        /\ \A y \in DOMAIN after.cashFlow :
             /\ DOMAIN after.cashFlow[y]
                  = FieldsOf(cashFlow, y) \cup (IF y = e[1] THEN {e[2]} ELSE {})
             /\ \A f \in FieldsOf(cashFlow, y) :
                  <<y, f>> # <<e[1], e[2]>> => after.cashFlow[y][f] = cashFlow[y][f]
        /\ after.basicInfo = basicInfo
        /\ after.incomeInfo = incomeInfo
        /\ after.expenseInfo = expenseInfo
        /\ after.lifeEvents = lifeEvents
        /\ after.assetsLiabilities = assetsLiabilities
        /\ after.parameters = parameters
        /\ after.currentStep = currentStep
        /\ Len(sets) = 1

\* two cells were edited one after the other on a computed table: both hold
\* the values typed, which a recompute would not give, and every other cell
\* holds what the recompute before the edits gave
C24_Witness ==
  /\ ~computed
  /\ DOMAIN overrides = {<<2025, "otherExpense">>, <<2026, "mainIncome">>}
  /\ DOMAIN cashFlow = HorizonYears
  /\ \A y \in DOMAIN cashFlow :
       /\ DOMAIN cashFlow[y] = Fields
       /\ \A f \in Fields :
            IF <<y, f>> \in DOMAIN overrides
              THEN cashFlow[y][f] = overrides[<<y, f>>] /\ Recomputed[y][f] # cashFlow[y][f]
              ELSE cashFlow[y][f] = Recomputed[y][f]

\* every state published by the set() calls of one operation holds the table
\* that the recurrence gives for the profile of that same state
Coherent(sets) ==
  \A i \in DOMAIN sets :
    HorizonOK(sets[i]) => sets[i].cashFlow = NewCashFlow(sets[i])

\* C25: once the table is computed and holds no override, no state that a
\* profile setter publishes to the subscribers holds the new profile (a new
\* deathAge, a new life event) together with the table computed from the
\* previous profile: in every published state cashFlow is the recurrence
\* applied to the profile of that state.
C25_SubscribersSeeCoherentStates ==
  computed =>
    /\ \A info \in BasicInfoInputs : Coherent(setBasicInfoSets(State, info))
    /\ \A event \in LifeEventInputs : Coherent(addLifeEventSets(State, event))
    /\ \A info \in IncomeInfoInputs : Coherent(setIncomeInfoSets(State, info))
    /\ \A info \in AssetsLiabilitiesInputs :
         Coherent(setAssetsLiabilitiesSets(State, info))
    /\ \A params \in ParametersInputs : Coherent(setParametersSets(State, params))
    /\ \A index \in 0..MaxEvents : Coherent(removeLifeEventSets(State, index))

\* the states published by a setter: first the new profile with the table
\* held before the call, then the same profile with the table that the
\* recurrence gives for it
StaleThenCoherent(sets) ==
  HorizonOK(Last(sets)) =>
    /\ Len(sets) = 2
    /\ sets[1].cashFlow = cashFlow
    /\ sets[2] = [sets[1] EXCEPT !.cashFlow = NewCashFlow(sets[1])]
    /\ Coherent(<<sets[2]>>)

\* C25 as amended: a profile setter notifies the subscribers twice, first
\* with the updated profile and the table still computed from the previous
\* profile, then with the recomputed table; the state that the completed
\* setter leaves holds the recurrence applied to the profile of that state.
C25_CoherentOnceSettled ==
  computed =>
    /\ \A info \in BasicInfoInputs : StaleThenCoherent(setBasicInfoSets(State, info))
    /\ \A event \in LifeEventInputs : StaleThenCoherent(addLifeEventSets(State, event))
    /\ \A info \in IncomeInfoInputs : StaleThenCoherent(setIncomeInfoSets(State, info))
    /\ \A info \in AssetsLiabilitiesInputs :
         StaleThenCoherent(setAssetsLiabilitiesSets(State, info))
    /\ \A params \in ParametersInputs :
         StaleThenCoherent(setParametersSets(State, params))
    /\ \A index \in 0..MaxEvents :
         StaleThenCoherent(removeLifeEventSets(State, index))
    /\ HorizonOK(State) => cashFlow = NewCashFlow(State)

\* a computed table of three years from which setBasicInfo with a shorter
\* life publishes the new deathAge together with the three rows, then one row
C25_Witness ==
  /\ computed
  /\ Cardinality(DOMAIN cashFlow) = 3
  /\ \E info \in BasicInfoInputs :
       LET sets == setBasicInfoSets(State, info)
       IN  /\ sets[1].basicInfo.deathAge = 30
           /\ sets[1].cashFlow = cashFlow
           /\ ~Coherent(<<sets[1]>>)
           /\ DOMAIN sets[2].cashFlow = {2025}
           /\ Coherent(<<sets[2]>>)

\* the keys of table cf are the horizon years of bi and every row holds the
\* eight fields
CompleteTable(cf, bi) ==
  /\ DOMAIN cf = bi.startYear .. (bi.startYear + (bi.deathAge - bi.currentAge))
  /\ \A y \in DOMAIN cf : DOMAIN cf[y] = Fields

\* C26: in a run of store operations without setCashFlow in which
\* updateCashFlowValue is called for horizon years only, from the first
\* recompute on every completed operation leaves a table whose keys are
\* exactly the horizon of the current basicInfo and whose rows all hold the
\* eight fields: every recompute leaves such a table and every operation
\* other than setCashFlow keeps it such.
C26_TableStaysComplete ==
  [][/\ computed' => CompleteTable(cashFlow', basicInfo')
     /\ (CompleteTable(cashFlow, basicInfo) /\ ~setCashFlow)
          => CompleteTable(cashFlow', basicInfo')]_vars

\* a table of three years that was recomputed, then edited in two cells, and
\* holds all its rows and fields under the wizard step reached afterwards
C26_Witness ==
  /\ ~computed
  /\ currentStep = 6
  /\ Cardinality(DOMAIN overrides) = 2
  /\ Cardinality(DOMAIN cashFlow) = 3
  /\ CompleteTable(cashFlow, basicInfo)

\* C27: for a profile whose table holds no override, the total assets that
\* the cash-flow table and the results chart show for each horizon year are
\* the closing assets that the store recurrence holds at the end of that year.
C27_ShownAssetsAreClosingAssets ==
  computed =>
    /\ Len(Shown) = Len(Closing) - 1
    /\ \A i \in 1..Len(Shown) :
         /\ Shown[i].assets = Closing[i + 1]
         /\ chartInvestmentData(State)[i].assets = Closing[i + 1]

\* the indices removeLifeEvent is tried with: those of the list and some
\* outside it
RemoveIndices == (0 - 1)..(MaxEvents + 1)

\* the life events left by removeLifeEvent(index)
AfterRemove(index) == Last(removeLifeEventSets(State, index)).lifeEvents

\* the store left by addLifeEvent(event)
AfterAdd(event) == Last(addLifeEventSets(State, event))

\* C28: removeLifeEvent(i) removes the event at index i (counted from 0) and
\* keeps the others in their order; an index outside the list leaves
\* lifeEvents as it is; addLifeEvent(e) appends e at the end, so
\* addLifeEvent(e) followed by removeLifeEvent of the last index restores
\* the previous lifeEvents and, on a table without overrides, the previous
\* cashFlow.
C28_RemoveUndoesAdd ==
  HorizonOK(State) =>
    /\ \A index \in RemoveIndices :
         IF 0 <= index /\ index < Len(lifeEvents)
           THEN /\ Len(AfterRemove(index)) = Len(lifeEvents) - 1
                /\ \A k \in 1..index : AfterRemove(index)[k] = lifeEvents[k]
                /\ \A k \in (index + 1)..(Len(lifeEvents) - 1) :
                     AfterRemove(index)[k] = lifeEvents[k + 1]
           ELSE AfterRemove(index) = lifeEvents
    /\ \A event \in LifeEventInputs :
         /\ Len(AfterAdd(event).lifeEvents) = Len(lifeEvents) + 1
         /\ AfterAdd(event).lifeEvents[Len(lifeEvents) + 1] = event
         /\ \A k \in 1..Len(lifeEvents) : AfterAdd(event).lifeEvents[k] = lifeEvents[k]
         /\ LET back == Last(removeLifeEventSets(AfterAdd(event), Len(lifeEvents)))
            IN  /\ back.lifeEvents = lifeEvents
                /\ computed => back.cashFlow = cashFlow

\* two different events are held and the table is computed: removing the
\* first leaves the second, removing the second leaves the first, and adding
\* an event changes the table that its removal restores
C28_Witness ==
  /\ computed
  /\ Len(lifeEvents) = 2
  /\ lifeEvents[1] # lifeEvents[2]
  /\ AfterRemove(0) = <<lifeEvents[2]>>
  /\ AfterRemove(1) = <<lifeEvents[1]>>
  /\ \E event \in LifeEventInputs : AfterAdd(event).cashFlow # cashFlow

\* side incomes as the income form holds them: a payment at one age, a
\* monthly amount between two ages
SideIncomeLists ==
  {<<[type |-> "one-time",
      oneTime |-> [age |-> 31, amount |-> 1000, description |-> "bonus"]]>>,
   <<[type |-> "recurring",
      recurring |-> [monthlyAmount |-> 50, startAge |-> 30, endAge |-> 33,
                     description |-> "lessons"]],
     [type |-> "one-time",
      oneTime |-> [age |-> 30, amount |-> 200, description |-> "sale"]]>>}

\* the income forms that differ from incomeInfo in sideIncomes or in a
\* severancePay alone
SideAndSeveranceVariants ==
  {Merge(incomeInfo, [sideIncomes |-> side]) : side \in SideIncomeLists}
  \cup {Merge(incomeInfo, [severancePay |-> 10000])}
  \cup (IF Has(incomeInfo, "spouse")
          THEN {Merge(incomeInfo,
                      [spouse |-> Merge(incomeInfo.spouse,
                                        [severancePay |-> 10000])])}
          ELSE {})

\* C29: every row of a recomputed table has sideIncome = 0 whatever
\* incomeInfo.sideIncomes holds, and neither sideIncomes nor the severancePay
\* of the head or of the spouse changes a row value or the closing assets of
\* a year.
C29_SideIncomeAndSeveranceUnread ==
  computed =>
    /\ \A y \in DOMAIN cashFlow : cashFlow[y].sideIncome = 0
    /\ \A ii \in SideAndSeveranceVariants :
         LET steps == RecurrenceOf([State EXCEPT !.incomeInfo = ii])
         IN  /\ TableOf(Years(basicInfo), steps) = cashFlow
             /\ ClosingOf(NetInitialAssets, steps) = Closing

\* a planned spouse with an income form earns from the marriage year on: the
\* table holds that income and no side income, and the four variants of the
\* income form are tried on it
C29_Witness ==
  /\ computed
  /\ Has(incomeInfo, "spouse")
  /\ \E y \in DOMAIN cashFlow : cashFlow[y].spouseIncome > 0
  /\ \A y \in DOMAIN cashFlow : cashFlow[y].sideIncome = 0
  /\ Cardinality(SideAndSeveranceVariants) = 4

\* what the expense form may submit
ExpenseProbes ==
  ExpenseInfoInputs
  \cup {[housingInfo |-> [type |-> "own", monthlyAmount |-> 1000]],
        [livingExpense |-> 300,
         educationExpense |-> [nursery |-> 10, preschool |-> 20, elementary |-> 30,
                               juniorHigh |-> 40, highSchool |-> 50,
                               university |-> 60]]}

\* C30: setExpenseInfo(x) changes no input of the recurrence: for every x
\* the table it leaves is the recurrence over the basicInfo, incomeInfo,
\* lifeEvents, assetsLiabilities and parameters held before the call, which
\* the call leaves as they are; a table without overrides is left identical
\* and every override held before the call is gone.
C30_SetExpenseInfoOnlyDropsOverrides ==
  HorizonOK(State) =>
    \A x \in ExpenseProbes :
      LET after == Last(setExpenseInfoSets(State, x))
      IN  /\ after.basicInfo = basicInfo
          /\ after.incomeInfo = incomeInfo
          /\ after.lifeEvents = lifeEvents
          /\ after.assetsLiabilities = assetsLiabilities
          /\ after.parameters = parameters
          /\ after.expenseInfo = Merge(expenseInfo, x)
          /\ after.cashFlow = Recomputed
          /\ computed => after.cashFlow = cashFlow
          /\ CellsFrom(after.cashFlow, Recomputed, DOMAIN overrides)

\* the expense form was submitted over a table with edited cells: the edits
\* are gone and the table is the recurrence of the profile
C30_Witness ==
  /\ computed
  /\ discarded
  /\ expenseInfo.livingExpense = 150
  /\ Cardinality(DOMAIN cashFlow) = 3
  /\ cashFlow = Recomputed
  /\ \A e \in EditInputs : ~CellIs(cashFlow, <<e[1], e[2]>>, e[3])

====
